---- MODULE Spec2Model ----
(***************************************************************************)
(* Verification model of the UCM / ECM core:                               *)
(*   - the ECM decision engine        (src/ecm_runtime.py)                 *)
(*   - the shadow propagator          (src/vault_logic_system/engine/      *)
(*                                     shadow_propagator.py)               *)
(*                                                                         *)
(* Numbers.  Every metric of the program is a float in [0,1].  The model   *)
(* is fixed point: the integer v stands for v / 10000, so 0.60 is 6000     *)
(* and 1.0 is ONE.  A mean is never formed as a quotient; "mean > t" is    *)
(* evaluated as "sum > t * n", which is the exact value of the comparison  *)
(* (IEEE rounding of sum/n is not modelled).  Times are milliseconds.      *)
(***************************************************************************)
EXTENDS Integers, Sequences, FiniteSets, TLC

VARIABLES
    \* ---- ECMRuntime ----
    cvvs,                    \* the records handed to ECMRuntime(...)
    softmax,                 \* the advisory handed to ECMRuntime(...)
    ecm,                     \* "none" | "ready" | "ValueError" | "decided"
    error,                   \* message of the exception raised, or ""
    verdict,                 \* the dict returned by the last decide(), or NoVerdict
    \* ---- ShadowPropagator ----
    now,                     \* int(time.time() * 1000)
    active_shadows,          \* target_key -> list of ShadowArtifact
    node_adjustment_counts,  \* adjustment_key -> int
    node_cumulative_deltas,  \* adjustment_key -> fixed point delta
    ret,                     \* what the last propagator call did and returned
    \* ---- MiniSKGExecutor ----
    executor,                \* the fields of the MiniSKGExecutor, or None
    traversal,               \* the last traverse(): its arguments and its MiniSKGResult
    \* ---- UCMReasoningCore / MultiBeamRunner ----
    multi_beam,              \* the last MultiBeamRunner(...): its arguments and its outcome
    core_propagator,         \* the fields of UCMReasoningCore.shadow_propagator
    pass,                    \* MultiBeamRunner.run: its position, its locals and its result
    \* ---- CVV.signature ----
    signed,                  \* the last two signature() calls: the records and their digests
    \* ---- enforce_invariants ----
    enforced,                \* the last enforce_invariants(): its arguments and its outcome
    \* ---- two decide() calls ----
    previous,                \* the decide() call before the last one: its records, advisory and verdict
    \* ---- the calls made on one executor ----
    heap,                    \* the dicts and lists the executor has created, by address
    bound,                   \* the addresses self.rule_results and self.contradiction_flags are bound to
    calls                    \* the traverse() calls made: arguments, the result object, its value at return

vars == <<cvvs, softmax, ecm, error, verdict,
          now, active_shadows, node_adjustment_counts, node_cumulative_deltas, ret,
          executor, traversal,
          multi_beam, core_propagator, pass,
          signed,
          enforced,
          previous,
          heap, bound, calls>>

ecmVars == <<cvvs, softmax, ecm, error, verdict>>

shadowVars == <<now, active_shadows, node_adjustment_counts, node_cumulative_deltas, ret>>

execVars == <<executor, traversal>>

beamVars == <<multi_beam, core_propagator, pass>>

signVars == <<signed>>

enforceVars == <<enforced>>

historyVars == <<previous>>

callVars == <<heap, bound, calls>>

\* What a call on one object leaves alone: the other objects.
outsideECM == <<shadowVars, execVars, beamVars, signVars, enforceVars, historyVars, callVars>>

outsideShadow == <<ecmVars, execVars, beamVars, signVars, enforceVars, historyVars, callVars>>

outsideExecutor == <<ecmVars, shadowVars, beamVars, signVars, enforceVars, historyVars, callVars>>

outsideBeams == <<ecmVars, execVars, signVars, enforceVars, historyVars, callVars>>

outsideSign == <<ecmVars, shadowVars, execVars, beamVars, enforceVars, historyVars, callVars>>

outsideTwice == <<shadowVars, execVars, beamVars, signVars, enforceVars, callVars>>

outsideCalls == <<ecmVars, shadowVars, beamVars, signVars, enforceVars, historyVars>>

outsideEnforce == <<ecmVars, shadowVars, execVars, beamVars, signVars, historyVars, callVars>>

\* 1.0 in fixed point.
ONE == 10000

\* ------------------------------------------------------------------------
\* Bounds of the model
\* ------------------------------------------------------------------------

\* Largest number of records in one ECMRuntime.
MaxCVVs == 2

\* Largest number of artifacts held by the propagator at one time.
MaxShadows == 2

\* ------------------------------------------------------------------------
\* Small helpers
\* ------------------------------------------------------------------------

Min(a, b) == IF a < b THEN a ELSE b

Max(a, b) == IF a > b THEN a ELSE b

\* dict.get(key, default)
Get(d, key, default) == IF key \in DOMAIN d THEN d[key] ELSE default

\* All sequences over S of length 0..n.
SeqsUpTo(S, n) == UNION {[1..k -> S] : k \in 0..n}

\* ========================================================================
\* ECM decision engine
\* ========================================================================

\* Field values the records are drawn from.  Each set straddles the
\* thresholds decide() compares the field (or its mean) with, and holds the
\* inclusive thresholds themselves (0.30, 0.60, 0.70, 0.85).  For up to three
\* records over these values the IEEE-754 value of every comparison made by
\* decide() equals its exact value.
ConfidenceValues == {4500, 7500, 8500}

ContradictionValues == {1000, 3000, 6000, 7000}

EntropyValues == {5000, 9000}

CoverageValues == {3000, 9000}

\* Range-valid records: every combination of the field values for a record
\* that is not falsified; a falsified record varies in confidence and
\* contradiction.
ValidCVVs ==
    [confidence : ConfidenceValues, contradiction : ContradictionValues,
     entropy : EntropyValues, coverage : CoverageValues,
     falsified : {FALSE}, skg_id : {"hume"}]
    \cup
    [confidence : {4500, 8500}, contradiction : {1000, 7000},
     entropy : {5000}, coverage : {9000},
     falsified : {TRUE}, skg_id : {"hume"}]

\* Records with exactly one scalar just outside [0,1]: each field once on a
\* strong clean base, and two on a falsified, highly contradictory base.
InvalidCVVs ==
    LET clean == [confidence |-> 8500, contradiction |-> 1000, entropy |-> 5000,
                  coverage |-> 9000, falsified |-> FALSE, skg_id |-> "hume"]
        bad   == [confidence |-> 8500, contradiction |-> 7000, entropy |-> 5000,
                  coverage |-> 9000, falsified |-> TRUE, skg_id |-> "hume"]
    IN  {[clean EXCEPT !.confidence = -100], [clean EXCEPT !.contradiction = ONE + 100],
         [clean EXCEPT !.entropy = -100], [clean EXCEPT !.coverage = ONE + 100],
         [bad EXCEPT !.coverage = ONE + 100], [bad EXCEPT !.confidence = -100]}

CVVs == ValidCVVs \cup InvalidCVVs

\* Advisory mappings over the two keys decide() reads: the empty mapping
\* (what UCMReasoningCore.reason passes), tier D alone, an inevitability of
\* 0.8 alone, and both keys with tier A and with tier D.
Advisories ==
    LET adv(K, t) == [k \in K |-> IF k = "reliability_tier" THEN t ELSE 8000]
        both == {"reliability_tier", "epistemic_inevitability"}
    IN  {adv({}, "D"), adv({"reliability_tier"}, "D"),
         adv({"epistemic_inevitability"}, "D"), adv(both, "A"), adv(both, "D")}

NoVerdict == [status |-> "none"]

\* Mutant of validate: the coverage check is forgotten.
validate_NoCoverage(c) ==
    IF ~(0 <= c.confidence /\ c.confidence <= ONE)
        THEN "CVV.confidence out of range"
    ELSE IF ~(0 <= c.contradiction /\ c.contradiction <= ONE)
        THEN "CVV.contradiction out of range"
    ELSE IF ~(0 <= c.entropy /\ c.entropy <= ONE)
        THEN "CVV.entropy out of range"
    ELSE "ok"

\* CVV.validate: "ok", or the message of the ValueError it raises.
validate(c) ==
    IF ~(0 <= c.confidence /\ c.confidence <= ONE)
        THEN "CVV.confidence out of range"
    ELSE IF ~(0 <= c.contradiction /\ c.contradiction <= ONE)
        THEN "CVV.contradiction out of range"
    ELSE IF ~(0 <= c.entropy /\ c.entropy <= ONE)
        THEN "CVV.entropy out of range"
    ELSE IF ~(0 <= c.coverage /\ c.coverage <= ONE)
        THEN "CVV.coverage out of range"
    ELSE "ok"

\* The loop of ECMRuntime.__init__: the first record that fails validation
\* raises; "ok" when none does.
validate_all(cs) ==
    IF \E i \in 1..Len(cs) : validate(cs[i]) # "ok"
    THEN validate(cs[CHOOSE i \in 1..Len(cs) :
                        /\ validate(cs[i]) # "ok"
                        /\ \A j \in 1..(i - 1) : validate(cs[j]) = "ok"])
    ELSE "ok"

\* CVV.signature: the payload formats each scalar to 4 decimals, which is the
\* fixed-point value itself; sha3_256 is taken to be injective on payloads.
signature(c) ==
    <<c.confidence, c.contradiction, c.entropy, c.coverage, c.falsified, c.skg_id>>

\* sum(getattr(c, attr) for c in cvvs)
RECURSIVE SumAttr(_, _)
SumAttr(cs, attr) ==
    IF cs = <<>> THEN 0 ELSE cs[1][attr] + SumAttr(Tail(cs), attr)

\* max(cvv.contradiction for cvv in cvvs), cvvs not empty
max_contradiction(cs) ==
    CHOOSE m \in {cs[i].contradiction : i \in 1..Len(cs)} :
        \A i \in 1..Len(cs) : cs[i].contradiction <= m

\* The values of an attribute in the order of the records.
AttrValues(cs, attr) == [i \in 1..Len(cs) |-> cs[i][attr]]

\* The rounding of ECMRuntime.avg.  sum() adds the doubles from left to
\* right and every addition rounds, so a mean that is exactly a threshold
\* can come out above or below the double of the threshold: the sign of
\* the difference, for the value sequences of the model where it is not 0.
\* 0.99 + 0.99 + 0.12 is 2.1 and a third of it 0.7000000000000001, while
\* 0.12 + 0.99 + 0.99 and 0.99 + 0.12 + 0.99 are 2.0999999999999996 and a
\* third of that 0.6999999999999998; the double of 0.7 lies in between.
\* For every other sequence of up to three records of the model the
\* comparisons of the doubles come out as those of the exact values.
MeanRounding(values) ==
    IF values = <<9900, 9900, 1200>> THEN 1
    ELSE IF values \in {<<1200, 9900, 9900>>, <<9900, 1200, 9900>>} THEN -1
    ELSE 0

\* ECMRuntime.avg compared with a threshold: avg(attr) > t, >= t, < t.
AvgGT(cs, attr, t) ==
    \/ SumAttr(cs, attr) > t * Len(cs)
    \/ SumAttr(cs, attr) = t * Len(cs) /\ MeanRounding(AttrValues(cs, attr)) > 0

AvgGE(cs, attr, t) ==
    \/ SumAttr(cs, attr) > t * Len(cs)
    \/ SumAttr(cs, attr) = t * Len(cs) /\ MeanRounding(AttrValues(cs, attr)) >= 0

AvgLT(cs, attr, t) ==
    \/ SumAttr(cs, attr) < t * Len(cs)
    \/ SumAttr(cs, attr) = t * Len(cs) /\ MeanRounding(AttrValues(cs, attr)) < 0

\* Mutant of any_falsified: only the first record is looked at.
any_falsified_FirstOnly(cs) == cs # <<>> /\ cs[1].falsified

\* ECMRuntime.any_falsified
any_falsified(cs) == \E i \in 1..Len(cs) : cs[i].falsified

\* Mutant of Round4: the digits after the fourth decimal are cut off.
Round4_Floor(num, den) == num \div den

\* round(num / den, 4) in fixed point: nearest integer, ties to even.
Round4(num, den) ==
    LET q == num \div den
        r == num % den
    IN  IF 2 * r > den THEN q + 1
        ELSE IF 2 * r < den THEN q
        ELSE IF q % 2 = 0 THEN q ELSE q + 1

\* round(self.avg(attr), 4) if self.cvvs else 0.0
RoundedAvg(cs, attr) ==
    IF cs = <<>> THEN 0 ELSE Round4(SumAttr(cs, attr), Len(cs))

\* Mutant of Verdict: the time of the call is mixed into each signature.
Verdict_Stamped(cs, status, rationale, t) ==
    [status |-> status,
     rationale |-> rationale,
     avg_confidence |-> RoundedAvg(cs, "confidence"),
     avg_entropy |-> RoundedAvg(cs, "entropy"),
     avg_coverage |-> RoundedAvg(cs, "coverage"),
     cvv_signatures |-> [i \in 1..Len(cs) |-> <<signature(cs[i]), t>>],
     timestamp_ms |-> t,
     audit |-> [invariants_checked |-> TRUE]]

\* ECMRuntime._verdict
Verdict(cs, status, rationale, t) ==
    [status |-> status,
     rationale |-> rationale,
     avg_confidence |-> RoundedAvg(cs, "confidence"),
     avg_entropy |-> RoundedAvg(cs, "entropy"),
     avg_coverage |-> RoundedAvg(cs, "coverage"),
     cvv_signatures |-> [i \in 1..Len(cs) |-> signature(cs[i])],
     timestamp_ms |-> t,
     audit |-> [invariants_checked |-> TRUE]]

\* The dict built inline by the contradiction-dominance rule.
ContradictionVerdict(cs, t) ==
    [status |-> "SUSPEND",
     rationale |-> "high_epistemic_contradiction",
     avg_confidence |-> RoundedAvg(cs, "confidence"),
     avg_contradiction |-> RoundedAvg(cs, "contradiction"),
     max_contradiction |-> max_contradiction(cs),
     avg_entropy |-> RoundedAvg(cs, "entropy"),
     avg_coverage |-> RoundedAvg(cs, "coverage"),
     cvv_signatures |-> [i \in 1..Len(cs) |-> signature(cs[i])],
     timestamp_ms |-> t,
     audit |-> [invariants_checked |-> TRUE]]

\* The dicts built inline by the single-CVV rule.
SingleVerdict(cvv, status, rationale, t) ==
    [status |-> status,
     rationale |-> rationale,
     avg_confidence |-> cvv.confidence,
     avg_contradiction |-> cvv.contradiction,
     avg_entropy |-> cvv.entropy,
     avg_coverage |-> cvv.coverage,
     cvv_signatures |-> <<signature(cvv)>>,
     timestamp_ms |-> t,
     audit |-> [invariants_checked |-> TRUE]]

\* Mutant of ContradictionDominance: both thresholds exclusive.
ContradictionDominance_Strict(cs) ==
    AvgGT(cs, "contradiction", 6000) \/ max_contradiction(cs) > 7000

\* Mutant of ContradictionDominance: the rule never fires.
ContradictionDominance_Never(cs) == FALSE

\* The contradiction-dominance test of decide().
ContradictionDominance(cs) ==
    AvgGE(cs, "contradiction", 6000) \/ max_contradiction(cs) >= 7000

\* Mutant of NoCVVs: the empty set is not recognised.
NoCVVs_Never(cs) == FALSE

\* `not self.cvvs`, the first test of decide().
NoCVVs(cs) == cs = <<>>

\* Mutant of SingleCVV: the single-CVV rule is never entered.
SingleCVV_Never(cs) == FALSE

\* `len(self.cvvs) == 1`, the entry test of the single-CVV rule.
SingleCVV(cs) == Len(cs) = 1

\* Mutant of SingleStrong: the contradiction bound inclusive.
SingleStrong_LaxContradiction(cvv) ==
    cvv.confidence >= 8500 /\ cvv.contradiction <= 3000 /\ ~cvv.falsified

\* Mutant of SingleStrong: the confidence threshold exclusive.
SingleStrong_Strict(cvv) ==
    cvv.confidence > 8500 /\ cvv.contradiction < 3000 /\ ~cvv.falsified

\* The single-CVV test of decide().
SingleStrong(cvv) ==
    cvv.confidence >= 8500 /\ cvv.contradiction < 3000 /\ ~cvv.falsified

\* self.softmax.get("reliability_tier"): None when the key is missing.
reliability_tier(adv) == Get(adv, "reliability_tier", "None")

\* Mutant of epistemic_inevitability: a missing key counts as certainty.
epistemic_inevitability_DefaultOne(adv) == Get(adv, "epistemic_inevitability", ONE)

\* self.softmax.get("epistemic_inevitability", 0.0)
epistemic_inevitability(adv) == Get(adv, "epistemic_inevitability", 0)

\* Mutant of decide: the REINTERPRETED rule is tried right after the
\* falsification veto, before the contradiction and single-record rules.
decide_AdvisoryFirst(cs, adv, t) ==
    IF NoCVVs(cs) THEN Verdict(cs, "SUSPEND", "No CVVs provided", t)
    ELSE IF any_falsified(cs) THEN Verdict(cs, "REJECT", "Falsification detected", t)
    ELSE IF /\ AvgGT(cs, "confidence", 7000)
            /\ AvgGT(cs, "coverage", 7500)
            /\ epistemic_inevitability(adv) > 7500
        THEN Verdict(cs, "REINTERPRETED", "High confidence with divergence", t)
    ELSE IF Len(cs) > 0 /\ ContradictionDominance(cs) THEN ContradictionVerdict(cs, t)
    ELSE IF SingleCVV(cs) THEN
        IF SingleStrong(cs[1])
        THEN SingleVerdict(cs[1], "CONDITIONAL", "single_strong_view", t)
        ELSE SingleVerdict(cs[1], "SUSPEND", "insufficient_consensus_or_strength", t)
    ELSE IF AvgGT(cs, "contradiction", 6000)
        THEN Verdict(cs, "SUSPEND", "High internal contradiction", t)
    ELSE IF reliability_tier(adv) = "D" /\ AvgGT(cs, "entropy", 7000)
        THEN Verdict(cs, "SUSPEND", "Byzantine + epistemic uncertainty", t)
    ELSE IF /\ \E i \in 1..Len(cs) : cs[i].confidence > 8000
            /\ AvgGT(cs, "coverage", 6000)
        THEN Verdict(cs, "CONDITIONAL", "Single worldview dominant", t)
    ELSE IF /\ AvgGT(cs, "confidence", 7000)
            /\ AvgLT(cs, "contradiction", 1500)
            /\ ~any_falsified(cs)
        THEN Verdict(cs, "ACCEPT", "Consensus achieved", t)
    ELSE IF AvgLT(cs, "confidence", 5000) \/ AvgLT(cs, "coverage", 4000)
        THEN Verdict(cs, "REJECT", "Insufficient confidence or coverage", t)
    ELSE Verdict(cs, "SUSPEND", "Ambiguous; human escalation required", t)

\* ECMRuntime.decide, statement by statement.
decide(cs, adv, t) ==
    IF NoCVVs(cs) THEN Verdict(cs, "SUSPEND", "No CVVs provided", t)
    ELSE IF any_falsified(cs) THEN Verdict(cs, "REJECT", "Falsification detected", t)
    ELSE IF Len(cs) > 0 /\ ContradictionDominance(cs) THEN ContradictionVerdict(cs, t)
    ELSE IF SingleCVV(cs) THEN
        IF SingleStrong(cs[1])
        THEN SingleVerdict(cs[1], "CONDITIONAL", "single_strong_view", t)
        ELSE SingleVerdict(cs[1], "SUSPEND", "insufficient_consensus_or_strength", t)
    ELSE IF AvgGT(cs, "contradiction", 6000)
        THEN Verdict(cs, "SUSPEND", "High internal contradiction", t)
    ELSE IF reliability_tier(adv) = "D" /\ AvgGT(cs, "entropy", 7000)
        THEN Verdict(cs, "SUSPEND", "Byzantine + epistemic uncertainty", t)
    ELSE IF /\ AvgGT(cs, "confidence", 7000)
            /\ AvgGT(cs, "coverage", 7500)
            /\ epistemic_inevitability(adv) > 7500
        THEN Verdict(cs, "REINTERPRETED", "High confidence with divergence", t)
    ELSE IF /\ \E i \in 1..Len(cs) : cs[i].confidence > 8000
            /\ AvgGT(cs, "coverage", 6000)
        THEN Verdict(cs, "CONDITIONAL", "Single worldview dominant", t)
    ELSE IF /\ AvgGT(cs, "confidence", 7000)
            /\ AvgLT(cs, "contradiction", 1500)
            /\ ~any_falsified(cs)
        THEN Verdict(cs, "ACCEPT", "Consensus achieved", t)
    ELSE IF AvgLT(cs, "confidence", 5000) \/ AvgLT(cs, "coverage", 4000)
        THEN Verdict(cs, "REJECT", "Insufficient confidence or coverage", t)
    ELSE Verdict(cs, "SUSPEND", "Ambiguous; human escalation required", t)

\* ECMRuntime(cvvs, softmax_advisory): stores its arguments, then validates
\* every record; a ValueError leaves no engine to call decide() on.
ECMRuntimeInit(cs, adv) ==
    /\ cvvs' = cs
    /\ softmax' = adv
    /\ error' = IF validate_all(cs) = "ok" THEN "" ELSE validate_all(cs)
    /\ ecm' = IF validate_all(cs) = "ok" THEN "ready" ELSE "ValueError"
    /\ verdict' = NoVerdict
    /\ UNCHANGED outsideECM

\* ecm.decide() on a constructed engine.
Decide ==
    /\ ecm \in {"ready", "decided"}
    /\ verdict' = decide(cvvs, softmax, now)
    /\ ecm' = "decided"
    /\ UNCHANGED <<cvvs, softmax, error>>
    /\ UNCHANGED outsideECM

InitECMVars ==
    /\ cvvs = <<>>
    /\ softmax = <<>>
    /\ ecm = "none"
    /\ error = ""
    /\ verdict = NoVerdict

InitShadowVars ==
    /\ now = 0
    /\ active_shadows = <<>>
    /\ node_adjustment_counts = <<>>
    /\ node_cumulative_deltas = <<>>
    /\ ret = [op |-> "none"]

\* No MiniSKGExecutor has been constructed.
InitExecVars ==
    /\ executor = [none |-> TRUE]
    /\ traversal = [op |-> "none"]

\* The core before its orchestrator is built: its own ShadowPropagator() is
\* new, and no pass has run.
InitBeamVars ==
    /\ multi_beam = [status |-> "none"]
    /\ core_propagator = [active_skg |-> [none |-> TRUE],
                          active_shadows |-> <<>>,
                          node_adjustment_counts |-> <<>>,
                          node_cumulative_deltas |-> <<>>]
    /\ pass = [pc |-> "idle", runs |-> 0]

InitSignVars == signed = [op |-> "none"]

InitEnforceVars == enforced = [op |-> "none"]

InitHistoryVars == previous = [op |-> "none"]

InitCallVars ==
    /\ heap = <<>>
    /\ bound = [none |-> TRUE]
    /\ calls = <<>>

Init ==
    /\ InitECMVars
    /\ InitShadowVars
    /\ InitExecVars
    /\ InitBeamVars
    /\ InitSignVars
    /\ InitEnforceVars
    /\ InitHistoryVars
    /\ InitCallVars

\* A caller constructs one engine from records and an advisory of its choice.
Construct ==
    /\ ecm = "none"
    /\ \E cs \in SeqsUpTo(CVVs, MaxCVVs), adv \in Advisories : ECMRuntimeInit(cs, adv)

NextECM ==
    \/ Construct
    \/ Decide

SpecECM == Init /\ [][NextECM]_vars

\* ========================================================================
\* Shadow propagator
\* ========================================================================

\* ShadowArtifact.ttl_ms
TTL_MS == 5000

\* Agents that emit shadows.
Agents == {"hume", "kant"}

\* The agent whose metrics the shadows are emitted for and applied to; it
\* also emits, so some of the shadows at its key are its own.
Targets == {"kant"}

\* Space-field nodes.
Locations == {"SPACE_247"}

\* Instants at which the propagator is called: the start, and the instants
\* at which an artifact emitted at the start is exactly TTL and TTL + 1 old.
ClockValues == {0, TTL_MS, TTL_MS + 1}

\* SeedInvocationLayer.shadow_triggers
ShadowTriggers ==
    [contradiction_threshold |-> 1,
     confidence_delta_threshold |-> 1500,
     entropy_spike_threshold |-> 7000]

\* Mini-SKG results handed to emit_shadow: two contradiction flags; a high
\* confidence score; a low score with widely spread node deltas; a low score
\* with nothing else (no trigger).
MiniSKGResults ==
    {[confidence_score |-> 0,
      rule_results |-> [n \in {"n1", "n2"} |-> [confidence_delta |-> -2500]],
      contradiction_flags |-> <<"n1", "n2">>],
     [confidence_score |-> 8000,
      rule_results |-> [n \in {"n1", "n2"} |-> [confidence_delta |-> 1500]],
      contradiction_flags |-> <<>>],
     [confidence_score |-> 1000,
      rule_results |-> [n \in {"n1", "n2"} |->
                          [confidence_delta |-> IF n = "n1" THEN -3000 ELSE 3000]],
      contradiction_flags |-> <<"n1">>],
     [confidence_score |-> 1000,
      rule_results |-> [n \in {"n1"} |-> [confidence_delta |-> 500]],
      contradiction_flags |-> <<>>]}

\* Base metrics handed to apply_shadows_to_metrics: the defaults of
\* BeamMetrics, and metrics near the ends of [0,1].
BaseMetrics ==
    {[confidence |-> 5000, entropy |-> 5000, contradiction |-> 0],
     [confidence |-> 9000, entropy |-> 1000, contradiction |-> 9500]}

None == [none |-> TRUE]

\* dict[key] = value
Put(d, key, value) ==
    [k \in DOMAIN d \cup {key} |-> IF k = key THEN value ELSE d[k]]

\* max(lo, min(hi, x))
Clamp(lo, hi, x) == Max(lo, Min(hi, x))

\* f"{evaluation_target}_{node_location}"
TargetKey(target, location) == target \o "_" \o location

\* Mutant of is_expired: an artifact exactly TTL old is already expired.
is_expired_AtTTL(s, current_time) == (current_time - s.timestamp_ms) >= s.ttl_ms

\* ShadowArtifact.is_expired
is_expired(s, current_time) == (current_time - s.timestamp_ms) > s.ttl_ms

\* Mutant of get_adjustment_delta: the per-kind caps 0.10 and 0.08 are gone.
get_adjustment_delta_Uncapped(s) ==
    LET base_delta ==
            IF s.trigger_type = "HIGH_CONTRADICTION"
                THEN (IF s.contradiction_flag THEN -1500 ELSE 0)
            ELSE IF s.trigger_type = "CONFIDENCE_DELTA"
                THEN (s.confidence_delta * 3) \div 10
            ELSE IF s.trigger_type = "ENTROPY_SPIKE"
                THEN -((s.entropy_marker * 2) \div 10)
            ELSE 0
    IN  Clamp(-2500, 2500, base_delta)

\* ShadowArtifact.get_adjustment_delta
get_adjustment_delta(s) ==
    LET base_delta ==
            IF s.trigger_type = "HIGH_CONTRADICTION"
                THEN (IF s.contradiction_flag THEN -1500 ELSE 0)
            ELSE IF s.trigger_type = "CONFIDENCE_DELTA"
                THEN Min((s.confidence_delta * 3) \div 10, 1000)
            ELSE IF s.trigger_type = "ENTROPY_SPIKE"
                THEN -Min((s.entropy_marker * 2) \div 10, 800)
            ELSE 0
    IN  Clamp(-2500, 2500, base_delta)

\* The deltas of a result's rule_results, summed, and their squares, summed.
RECURSIVE SumDeltas(_, _)
SumDeltas(rr, keys) ==
    IF keys = {} THEN 0
    ELSE LET k == CHOOSE x \in keys : TRUE
         IN  Get(rr[k], "confidence_delta", 0) + SumDeltas(rr, keys \ {k})

RECURSIVE SumSquares(_, _)
SumSquares(rr, keys) ==
    IF keys = {} THEN 0
    ELSE LET k == CHOOSE x \in keys : TRUE
             d == Get(rr[k], "confidence_delta", 0)
         IN  d * d + SumSquares(rr, keys \ {k})

\* ShadowPropagator._calculate_entropy_marker: min(1.0, variance * 10), with
\* variance = sum((d - mean)^2) / n = (n * sum(d^2) - sum(d)^2) / n^2.
\* In fixed point the marker is that value times 10 / 10000.
_calculate_entropy_marker(mini_skg_result) ==
    LET rr == mini_skg_result.rule_results
        n  == Cardinality(DOMAIN rr)
        s1 == SumDeltas(rr, DOMAIN rr)
        s2 == SumSquares(rr, DOMAIN rr)
    IN  IF n = 0 THEN 0
        ELSE Min(ONE, (n * s2 - s1 * s1) \div (n * n * 1000))

\* Mutant of _evaluate_triggers: the confidence trigger is tried first.
_evaluate_triggers_ConfidenceFirst(mini_skg_result, trigger_conditions) ==
    IF mini_skg_result.confidence_score
            >= Get(trigger_conditions, "confidence_delta_threshold", 2000)
        THEN "CONFIDENCE_DELTA"
    ELSE IF Len(mini_skg_result.contradiction_flags)
            > Get(trigger_conditions, "contradiction_threshold", 0)
        THEN "HIGH_CONTRADICTION"
    ELSE IF _calculate_entropy_marker(mini_skg_result)
            >= Get(trigger_conditions, "entropy_spike_threshold", 8000)
        THEN "ENTROPY_SPIKE"
    ELSE "None"

\* ShadowPropagator._evaluate_triggers
_evaluate_triggers(mini_skg_result, trigger_conditions) ==
    IF Len(mini_skg_result.contradiction_flags)
            > Get(trigger_conditions, "contradiction_threshold", 0)
        THEN "HIGH_CONTRADICTION"
    ELSE IF mini_skg_result.confidence_score
            >= Get(trigger_conditions, "confidence_delta_threshold", 2000)
        THEN "CONFIDENCE_DELTA"
    ELSE IF _calculate_entropy_marker(mini_skg_result)
            >= Get(trigger_conditions, "entropy_spike_threshold", 8000)
        THEN "ENTROPY_SPIKE"
    ELSE "None"

\* The ShadowArtifact built by emit_shadow.  The two sha3 digests are taken
\* to be injective and are represented by what is hashed.
NewShadow(skg_origin, node_location, evaluation_target, mini_skg_result, trigger_type, timestamp) ==
    [shadow_id |-> <<skg_origin \o node_location, timestamp>>,
     skg_origin |-> skg_origin,
     timestamp_ms |-> timestamp,
     node_location |-> node_location,
     evaluation_target |-> evaluation_target,
     trigger_type |-> trigger_type,
     confidence_delta |-> mini_skg_result.confidence_score,
     contradiction_flag |-> Len(mini_skg_result.contradiction_flags) > 0,
     entropy_marker |-> _calculate_entropy_marker(mini_skg_result),
     skg_hash |-> skg_origin,
     invocation_count |-> Cardinality(DOMAIN mini_skg_result.rule_results),
     ttl_ms |-> TTL_MS]

\* Number of artifacts in the registry.
RECURSIVE TotalShadows(_, _)
TotalShadows(shadows, keys) ==
    IF keys = {} THEN 0
    ELSE LET k == CHOOSE x \in keys : TRUE
         IN  Len(shadows[k]) + TotalShadows(shadows, keys \ {k})

\* ShadowPropagator.emit_shadow
emit_shadow(skg_origin, node_location, evaluation_target, mini_skg_result, trigger_conditions) ==
    LET trigger_type == _evaluate_triggers(mini_skg_result, trigger_conditions)
        shadow == NewShadow(skg_origin, node_location, evaluation_target,
                            mini_skg_result, trigger_type, now)
        target_key == TargetKey(evaluation_target, node_location)
    IN  /\ ret' = [op |-> "emit_shadow",
                   skg_origin |-> skg_origin,
                   node_location |-> node_location,
                   evaluation_target |-> evaluation_target,
                   mini_skg_result |-> mini_skg_result,
                   trigger_conditions |-> trigger_conditions,
                   result |-> IF trigger_type = "None" THEN None ELSE shadow]
        /\ IF trigger_type = "None"
           THEN UNCHANGED active_shadows
           ELSE active_shadows' =
                    Put(active_shadows, target_key,
                        Append(Get(active_shadows, target_key, <<>>), shadow))
        /\ UNCHANGED <<now, node_adjustment_counts, node_cumulative_deltas>>

\* sum(shadow.get_adjustment_delta() for shadow in shadows)
RECURSIVE SumAdjustments(_)
SumAdjustments(shadows) ==
    IF shadows = <<>> THEN 0
    ELSE get_adjustment_delta(shadows[1]) + SumAdjustments(Tail(shadows))

\* The filter of the comprehension that cleans expired shadows.
LiveShadows(shadows, current_time) ==
    SelectSeq(shadows, LAMBDA s : ~is_expired(s, current_time))

\* Mutant of AppliedShadows: self-shadows are applied like any other.
AppliedShadows_WithSelf(shadows, target_skg) == shadows

\* The shadows the adjustment loop applies: not the target's own.
AppliedShadows(shadows, target_skg) ==
    SelectSeq(shadows, LAMBDA s : s.skg_origin # target_skg)

\* Mutant of TotalAdjustment: the sum is applied as it is.
TotalAdjustment_Unclamped(applied_shadows) == SumAdjustments(applied_shadows)

\* total_adjustment after "Apply cumulative cap".
TotalAdjustment(applied_shadows) ==
    Clamp(-2500, 2500, SumAdjustments(applied_shadows))

\* Mutant of AtAdjustmentLimit: the count is never looked at.
AtAdjustmentLimit_Never(current_count) == FALSE

\* Mutant of AtAdjustmentLimit: one adjustment too many is let through.
AtAdjustmentLimit_OffByOne(current_count) == current_count > 3

\* "if current_count >= 3": max 3 adjustments per node.
AtAdjustmentLimit(current_count) == current_count >= 3

\* Mutant of AdjustedMetrics: the adjusted values are not re-clamped.
AdjustedMetrics_NoReclamp(base_metrics, total_adjustment) ==
    [k \in DOMAIN base_metrics |->
        IF k = "confidence" THEN base_metrics[k] + total_adjustment
        ELSE IF k = "entropy" THEN base_metrics[k] + (-total_adjustment * 5) \div 10
        ELSE IF k = "contradiction" THEN base_metrics[k] + (total_adjustment * 3) \div 10
        ELSE base_metrics[k]]

\* "Apply adjustments to metrics": the copy of base_metrics with the keys
\* it has adjusted by total_adjustment.
AdjustedMetrics(base_metrics, total_adjustment) ==
    [k \in DOMAIN base_metrics |->
        IF k = "confidence"
            THEN Clamp(0, ONE, base_metrics[k] + total_adjustment)
        ELSE IF k = "entropy"
            THEN Clamp(0, ONE, base_metrics[k] + (-total_adjustment * 5) \div 10)
        ELSE IF k = "contradiction"
            THEN Clamp(0, ONE, base_metrics[k] + (total_adjustment * 3) \div 10)
        ELSE base_metrics[k]]

\* What apply_shadows_to_metrics returns for a registry, the counters and
\* the clock as given.
ApplyResult(shadows, counts, target_skg, node_location, base_metrics, current_time) ==
    LET target_key == TargetKey(target_skg, node_location)
    IN  IF target_key \notin DOMAIN shadows THEN base_metrics
        ELSE LET live == LiveShadows(shadows[target_key], current_time)
             IN  IF live = <<>> THEN base_metrics
                 ELSE IF AtAdjustmentLimit(Get(counts, target_key, 0)) THEN base_metrics
                 ELSE AdjustedMetrics(base_metrics,
                                      TotalAdjustment(AppliedShadows(live, target_skg)))

\* ShadowPropagator.apply_shadows_to_metrics
apply_shadows_to_metrics(target_skg, node_location, base_metrics) ==
    LET target_key == TargetKey(target_skg, node_location)
        current_time == now
        live == LiveShadows(active_shadows[target_key], current_time)
        current_count == Get(node_adjustment_counts, target_key, 0)
        current_cumulative == Get(node_cumulative_deltas, target_key, 0)
        applied_shadows == AppliedShadows(live, target_skg)
        total_adjustment == TotalAdjustment(applied_shadows)
    IN  /\ ret' = [op |-> "apply_shadows_to_metrics",
                   target_skg |-> target_skg,
                   node_location |-> node_location,
                   base_metrics |-> base_metrics,
                   \* the caller's dict after the call: every write goes to
                   \* base_metrics.copy()
                   caller_metrics |-> base_metrics,
                   result |-> ApplyResult(active_shadows, node_adjustment_counts,
                                          target_skg, node_location, base_metrics,
                                          current_time)]
        /\ IF target_key \notin DOMAIN active_shadows
           THEN UNCHANGED <<active_shadows, node_adjustment_counts,
                            node_cumulative_deltas>>
           ELSE /\ active_shadows' = [active_shadows EXCEPT ![target_key] = live]
                /\ IF live = <<>> \/ AtAdjustmentLimit(current_count)
                   THEN UNCHANGED <<node_adjustment_counts, node_cumulative_deltas>>
                   ELSE /\ node_adjustment_counts' =
                              Put(node_adjustment_counts, target_key,
                                  current_count + Len(applied_shadows))
                        /\ node_cumulative_deltas' =
                              Put(node_cumulative_deltas, target_key,
                                  current_cumulative + total_adjustment)
        /\ UNCHANGED now
        /\ UNCHANGED outsideShadow

\* ShadowPropagator.get_shadow_stats
get_shadow_stats ==
    /\ ret' = [op |-> "get_shadow_stats",
               result |->
                [total_active_shadows |-> TotalShadows(active_shadows, DOMAIN active_shadows),
                 expired_shadows |->
                    TotalShadows([k \in DOMAIN active_shadows |->
                                    SelectSeq(active_shadows[k],
                                              LAMBDA x : is_expired(x, now))],
                                 DOMAIN active_shadows),
                 active_nodes |-> Cardinality(DOMAIN active_shadows),
                 adjustment_counts |-> node_adjustment_counts,
                 cumulative_deltas |-> node_cumulative_deltas]]
    /\ UNCHANGED <<now, active_shadows, node_adjustment_counts, node_cumulative_deltas>>
    /\ UNCHANGED outsideShadow

\* Mutant of NodeShadowCounts: expired artifacts are counted too.
NodeShadowCounts_WithExpired(shadows, current_time) ==
    [k \in {key \in DOMAIN shadows : shadows[key] # <<>>} |-> Len(shadows[k])]

\* The keys with live shadows and how many each has (node_shadow_counts).
NodeShadowCounts(shadows, current_time) ==
    [k \in {key \in DOMAIN shadows : LiveShadows(shadows[key], current_time) # <<>>}
        |-> Len(LiveShadows(shadows[k], current_time))]

\* One resonance event of get_resonance_markers.
ResonanceEvent(shadows, node_key, current_time) ==
    LET live == LiveShadows(shadows[node_key], current_time)
    IN  [node |-> node_key,
         skgs_involved |-> {live[i].skg_origin : i \in 1..Len(live)},
         confidence_shifts |-> [i \in 1..Min(2, Len(live)) |-> live[i].confidence_delta],
         timestamp |-> current_time]

\* The dict returned by get_resonance_markers; the list of events is kept as
\* a set (its order is the insertion order of the registry's keys).
ResonanceMarkers(shadows, current_time) ==
    LET counts == NodeShadowCounts(shadows, current_time)
        events == {ResonanceEvent(shadows, k, current_time) :
                      k \in {key \in DOMAIN counts : counts[key] >= 2}}
    IN  [total_resonance_events |-> Cardinality(events),
         active_shadows |-> TotalShadows([k \in DOMAIN counts |->
                                LiveShadows(shadows[k], current_time)], DOMAIN counts),
         node_shadow_distribution |-> counts,
         resonance_events |-> events]

\* ShadowPropagator.get_resonance_markers
get_resonance_markers ==
    /\ ret' = [op |-> "get_resonance_markers",
               result |-> ResonanceMarkers(active_shadows, now)]
    /\ UNCHANGED <<now, active_shadows, node_adjustment_counts, node_cumulative_deltas>>
    /\ UNCHANGED outsideShadow

\* ------------------------------------------------------------------------
\* The propagator's callers
\* ------------------------------------------------------------------------

\* An agent's seed invocation emits a shadow (SeedInvocationLayer).
Emit ==
    /\ TotalShadows(active_shadows, DOMAIN active_shadows) < MaxShadows
    /\ \E origin \in Agents, location \in Locations, target \in Targets,
          result \in MiniSKGResults :
            emit_shadow(origin, location, target, result, ShadowTriggers)
    /\ UNCHANGED outsideShadow

\* An agent applies the shadows at a node to its metrics.
Apply ==
    \E target \in Targets, location \in Locations, base \in BaseMetrics :
        apply_shadows_to_metrics(target, location, base)

\* A caller asks the registry for the resonance markers.
Resonance == get_resonance_markers

\* Wall-clock time passes between two calls.
Tick ==
    /\ \E t \in ClockValues : t > now /\ now' = t
    /\ ret' = [op |-> "none"]
    /\ UNCHANGED <<active_shadows, node_adjustment_counts, node_cumulative_deltas>>
    /\ UNCHANGED outsideShadow

NextShadow ==
    \/ Emit
    \/ Apply
    \/ Resonance
    \/ Tick

SpecShadow == Init /\ [][NextShadow]_vars

\* ------------------------------------------------------------------------
\* Properties of the shadow propagator (checked under SpecShadow)
\* ------------------------------------------------------------------------

\* The artifacts of a list that are at most TTL old at time t.
FreshAt(shadows, t) == SelectSeq(shadows, LAMBDA s : t - s.timestamp_ms <= TTL_MS)

\* The artifacts of a list that were not emitted by agent a.
NotFrom(shadows, a) == SelectSeq(shadows, LAMBDA s : s.skg_origin # a)

\* C5 -- Cumulative-delta invariant: in every reachable state the cumulative
\* applied delta recorded for each (target, location) key lies within
\* [-0.25, +0.25].
C5_CumulativeDeltaInvariant ==
    \A k \in DOMAIN node_cumulative_deltas :
        -2500 <= node_cumulative_deltas[k] /\ node_cumulative_deltas[k] <= 2500

\* C6 -- Adjustment-count invariant: in every reachable state the adjustment
\* count recorded for each (target, location) key is at most 3.
C6_AdjustmentCountInvariant ==
    \A k \in DOMAIN node_adjustment_counts : node_adjustment_counts[k] <= 3

C8_PerApplyCap ==
    [][ret'.op = "apply_shadows_to_metrics" =>
        LET t    == ret'.target_skg
            k    == TargetKey(t, ret'.node_location)
            base == ret'.base_metrics
            res  == ret'.result
            live == IF k \in DOMAIN active_shadows
                    THEN FreshAt(active_shadows[k], now) ELSE <<>>
            adjusts == live # <<>> /\ Get(node_adjustment_counts, k, 0) < 3
            total == Clamp(-2500, 2500, SumAdjustments(NotFrom(live, t)))
        IN  /\ res.confidence - base.confidence <= 2500
            /\ base.confidence - res.confidence <= 2500
            /\ adjusts => res.confidence = Clamp(0, ONE, base.confidence + total)
            /\ ~adjusts => res = base]_vars

\* C8 witness: two live HIGH_CONTRADICTION artifacts of another agent (sum
\* -0.30) were applied and the confidence went down by exactly 0.25.
C8_Witness ==
    /\ ret.op = "apply_shadows_to_metrics"
    /\ TargetKey(ret.target_skg, ret.node_location) \in DOMAIN active_shadows
    /\ LET k == TargetKey(ret.target_skg, ret.node_location)
           live == NotFrom(FreshAt(active_shadows[k], now), ret.target_skg)
       IN  /\ Len(live) = 2
           /\ \A i \in 1..2 : live[i].trigger_type = "HIGH_CONTRADICTION"
           /\ ret.result.confidence = ret.base_metrics.confidence - 2500

\* C9 -- Shadow TTL: an apply removes from its key exactly the artifacts
\* older than 5000 ms and keeps those at most 5000 ms old; the removed ones
\* contribute nothing (the confidence shift is that of the artifacts at most
\* 5000 ms old, and with none of those the base metrics are returned and the
\* counters stay); resonance counts, per key, exactly the artifacts at most
\* 5000 ms old.
C9_ShadowTTL ==
    [][/\ ret'.op = "apply_shadows_to_metrics" =>
            LET t    == ret'.target_skg
                k    == TargetKey(t, ret'.node_location)
                base == ret'.base_metrics
                res  == ret'.result
            IN  k \in DOMAIN active_shadows =>
                LET fresh == FreshAt(active_shadows[k], now)
                    adjusts == fresh # <<>> /\ Get(node_adjustment_counts, k, 0) < 3
                IN  /\ active_shadows'[k] = fresh
                    /\ adjusts => res.confidence =
                          Clamp(0, ONE, base.confidence +
                                Clamp(-2500, 2500, SumAdjustments(NotFrom(fresh, t))))
                    /\ fresh = <<>> =>
                          /\ res = base
                          /\ node_adjustment_counts' = node_adjustment_counts
                          /\ node_cumulative_deltas' = node_cumulative_deltas
       /\ ret'.op = "get_resonance_markers" =>
            \A k \in DOMAIN active_shadows :
                LET n == Len(FreshAt(active_shadows[k], now))
                    dist == ret'.result.node_shadow_distribution
                IN  /\ n > 0 => (k \in DOMAIN dist /\ dist[k] = n)
                    /\ n = 0 => k \notin DOMAIN dist
                    /\ (\E e \in ret'.result.resonance_events : e.node = k) <=> n >= 2
      ]_vars

\* C9 witness: an apply found only an expired artifact at its key: the key
\* is left with an empty list, the base metrics came back, and no counter
\* was ever written.
C9_Witness ==
    /\ ret.op = "apply_shadows_to_metrics"
    /\ now = TTL_MS + 1
    /\ LET k == TargetKey(ret.target_skg, ret.node_location)
       IN  /\ k \in DOMAIN active_shadows
           /\ active_shadows[k] = <<>>
           /\ k \notin DOMAIN node_adjustment_counts
    /\ ret.result = ret.base_metrics

\* The registry with every artifact emitted by agent a removed.
WithoutOrigin(shadows, a) == [k \in DOMAIN shadows |-> NotFrom(shadows[k], a)]

\* C10 -- No self-shadowing: what apply(target, location, base) returns is
\* what it would return were all artifacts with origin = target absent from
\* the registry, and the adjustment counter grows by the number of live
\* artifacts of other agents only.
C10_NoSelfShadowing ==
    [][ret'.op = "apply_shadows_to_metrics" =>
        LET t == ret'.target_skg
            l == ret'.node_location
            k == TargetKey(t, l)
            others == IF k \in DOMAIN active_shadows
                      THEN NotFrom(FreshAt(active_shadows[k], now), t) ELSE <<>>
        IN  /\ ret'.result =
                  ApplyResult(WithoutOrigin(active_shadows, t), node_adjustment_counts,
                              t, l, ret'.base_metrics, now)
            /\ Get(node_adjustment_counts', k, 0) - Get(node_adjustment_counts, k, 0)
                  \in {0, Len(others)}]_vars

\* C10 witness: a live artifact of the target itself and a live artifact of
\* another agent are at the key; the apply that ran shifted the metrics and
\* counted one adjustment.
C10_Witness ==
    /\ ret.op = "apply_shadows_to_metrics"
    /\ TargetKey(ret.target_skg, ret.node_location) \in DOMAIN active_shadows
    /\ TargetKey(ret.target_skg, ret.node_location) \in DOMAIN node_adjustment_counts
    /\ LET t == ret.target_skg
           k == TargetKey(t, ret.node_location)
           live == FreshAt(active_shadows[k], now)
       IN  /\ Len(live) = 2
           /\ \E i \in 1..2 : live[i].skg_origin = t
           /\ Len(NotFrom(live, t)) = 1
           /\ node_adjustment_counts[k] = 1
           /\ ret.result # ret.base_metrics

\* ------------------------------------------------------------------------
\* Properties of the decision engine (checked under SpecECM)
\* ------------------------------------------------------------------------

\* A scalar of record c lies outside [0,1].
OutOfRange(c) ==
    \E f \in {"confidence", "contradiction", "entropy", "coverage"} :
        c[f] < 0 \/ c[f] > ONE

\* C1 -- Falsification veto: whenever decide() has returned for a non-empty
\* set of range-valid records of which at least one is falsified, the status
\* is REJECT, whatever the other fields, the number of records and the
\* advisory.
C1_FalsificationVeto ==
    (/\ ecm = "decided"
     /\ cvvs # <<>>
     /\ \E i \in 1..Len(cvvs) : cvvs[i].falsified)
    => verdict.status = "REJECT"

\* C1 witness: a verdict for a set whose second record is falsified while the
\* first one alone meets the suspension threshold, under a tier-D advisory.
C1_Witness ==
    /\ ecm = "decided"
    /\ Len(cvvs) = 2
    /\ ~cvvs[1].falsified /\ cvvs[1].contradiction >= 7000
    /\ cvvs[2].falsified /\ cvvs[2].confidence = 8500
    /\ "reliability_tier" \in DOMAIN softmax /\ softmax.reliability_tier = "D"
    /\ verdict.status = "REJECT"

C3_ValidationFirst ==
    /\ (\E i \in 1..Len(cvvs) : OutOfRange(cvvs[i]))
        => (ecm = "ValueError" /\ error # "" /\ verdict = NoVerdict)
    /\ ecm = "ValueError" => (\E i \in 1..Len(cvvs) : OutOfRange(cvvs[i]))
    /\ verdict # NoVerdict => (\A i \in 1..Len(cvvs) : ~OutOfRange(cvvs[i]))

\* C3 witness: construction failed on coverage = 1.01 of the second record
\* while the first record is falsified; there is no verdict.
C3_Witness ==
    /\ ecm = "ValueError"
    /\ Len(cvvs) = 2
    /\ cvvs[1].falsified /\ ~OutOfRange(cvvs[1])
    /\ cvvs[2].coverage > ONE
    /\ error = "CVV.coverage out of range"
    /\ verdict = NoVerdict

\* The ordered chain of the decision contract, first match wins.
C4_Chain ==
    LET n == Len(cvvs)
        S(a) == SumAttr(cvvs, a)
        tier == IF "reliability_tier" \in DOMAIN softmax
                THEN softmax.reliability_tier ELSE "absent"
        inev == IF "epistemic_inevitability" \in DOMAIN softmax
                THEN softmax.epistemic_inevitability ELSE 0
    IN  IF n = 0 THEN "SUSPEND"
        ELSE IF \E i \in 1..n : cvvs[i].falsified THEN "REJECT"
        ELSE IF \/ S("contradiction") >= 6000 * n
                \/ \E i \in 1..n : cvvs[i].contradiction >= 7000 THEN "SUSPEND"
        ELSE IF n = 1 THEN
            IF cvvs[1].confidence >= 8500 /\ cvvs[1].contradiction < 3000
            THEN "CONDITIONAL" ELSE "SUSPEND"
        ELSE IF tier = "D" /\ S("entropy") > 7000 * n THEN "SUSPEND"
        ELSE IF /\ S("confidence") > 7000 * n
                /\ S("coverage") > 7500 * n
                /\ inev > 7500 THEN "REINTERPRETED"
        ELSE IF /\ \E i \in 1..n : cvvs[i].confidence > 8000
                /\ S("coverage") > 6000 * n THEN "CONDITIONAL"
        ELSE IF S("confidence") > 7000 * n /\ S("contradiction") < 1500 * n
            THEN "ACCEPT"
        ELSE IF S("confidence") < 5000 * n \/ S("coverage") < 4000 * n
            THEN "REJECT"
        ELSE "SUSPEND"

C11_AsStated ==
    (ecm = "decided" /\ Len(cvvs) = 1) =>
        verdict.status =
            IF /\ cvvs[1].confidence >= 8500
               /\ cvvs[1].contradiction < 3000
               /\ ~cvvs[1].falsified
            THEN "CONDITIONAL" ELSE "SUSPEND"

\* C11 -- Single-record dichotomy: for exactly one range-valid record that
\* is not falsified, decide() returns CONDITIONAL when confidence >= 0.85 and
\* contradiction < 0.30, and SUSPEND otherwise; for one falsified record it
\* returns REJECT (the falsification veto comes first).
C11_SingleRecordDichotomy ==
    (ecm = "decided" /\ Len(cvvs) = 1) =>
        verdict.status =
            IF cvvs[1].falsified THEN "REJECT"
            ELSE IF cvvs[1].confidence >= 8500 /\ cvvs[1].contradiction < 3000
            THEN "CONDITIONAL" ELSE "SUSPEND"

\* C11 witness: one clean record with confidence exactly 0.85 and
\* contradiction exactly 0.30 was suspended by the single-CVV rule.
C11_Witness ==
    /\ ecm = "decided"
    /\ Len(cvvs) = 1
    /\ ~cvvs[1].falsified
    /\ cvvs[1].confidence = 8500 /\ cvvs[1].contradiction = 3000
    /\ verdict.status = "SUSPEND"
    /\ verdict.rationale = "insufficient_consensus_or_strength"

\* C12 -- A set of exactly one range-valid record never yields ACCEPT or
\* REINTERPRETED, whatever the record's fields and the advisory.
C12_SingleNeverAcceptOrReinterpreted ==
    (ecm = "decided" /\ Len(cvvs) = 1) =>
        verdict.status \notin {"ACCEPT", "REINTERPRETED"}

\* C12 witness: one record that meets every test of the REINTERPRETED rule
\* (confidence 0.85 > 0.70, coverage 0.90 > 0.75, epistemic_inevitability
\* 0.80 > 0.75) and of the ACCEPT rule (contradiction 0.10 < 0.15) was
\* decided CONDITIONAL.
C12_Witness ==
    /\ ecm = "decided"
    /\ Len(cvvs) = 1
    /\ ~cvvs[1].falsified
    /\ cvvs[1].confidence = 8500 /\ cvvs[1].coverage = 9000
    /\ cvvs[1].contradiction = 1000
    /\ "epistemic_inevitability" \in DOMAIN softmax
    /\ softmax.epistemic_inevitability > 7500
    /\ verdict.status = "CONDITIONAL"

\* C13 -- Empty record set: for every advisory, construction raises nothing
\* and decide() returns SUSPEND with rationale "No CVVs provided", aggregate
\* stats 0 and an empty signature list (no mean is formed over zero records).
C13_EmptySetSuspends ==
    (cvvs = <<>> /\ ecm # "none") =>
        /\ ecm \in {"ready", "decided"}
        /\ error = ""
        /\ ecm = "decided" =>
            /\ verdict.status = "SUSPEND"
            /\ verdict.rationale = "No CVVs provided"
            /\ verdict.avg_confidence = 0
            /\ verdict.avg_entropy = 0
            /\ verdict.avg_coverage = 0
            /\ verdict.cvv_signatures = <<>>

\* C13 witness: a verdict for the empty set under a tier-D advisory with a
\* high epistemic_inevitability.
C13_Witness ==
    /\ ecm = "decided"
    /\ cvvs = <<>>
    /\ DOMAIN softmax = {"reliability_tier", "epistemic_inevitability"}
    /\ softmax.reliability_tier = "D"
    /\ verdict.status = "SUSPEND"
    /\ verdict.rationale = "No CVVs provided"

\* ========================================================================
\* Mini-SKG executor (src/vault_logic_system/engine/mini_skg_executor.py)
\* ========================================================================

\* Texts.  A text (a term, a definition, a context) is the set of the words
\* it holds, and the substring test `a in b` is a \subseteq b: the empty
\* text is in every text.  All words are lower case, so lower() changes
\* nothing.
In(a, b) == a \subseteq b

\* The indicators _detect_contradiction searches the content for.
ContradictionIndicators ==
    {"contradiction", "paradox", "inconsistent", "mutually exclusive",
     "cannot be both", "impossible", "false premise", "invalid conclusion"}

\* Mutant of NodeCap: one node more is let through.
NodeCap_Six == 5 + 1

\* The cap of traverse(): concept_nodes[:5] and traversal_depth >= 5.
NodeCap == 5

\* Largest number of nodes in the entries of a seed.
MaxNodes == 6

\* The kinds of node a seed is put together from.
NodeTypes == {"inference_rule", "method", "concept", "axiom"}

\* The node of each kind, with the given id: an inference rule of certainty
\* 2.0, a deductive method, a concept whose term is a contradiction
\* indicator, and a node of a type the executor does not know.
Node(type, id) ==
    [id |-> id,
     type |-> type,
     term |-> IF type = "inference_rule" THEN {"modus_ponens"}
              ELSE IF type = "method" THEN {"deductive"}
              ELSE IF type = "concept" THEN {"paradox"}
              ELSE {"cause"},
     definition |-> IF type = "method" THEN {"logical"} ELSE {},
     value |-> IF type = "inference_rule" THEN [k \in {"certainty"} |-> 20000]
               ELSE [k \in {} |-> 0]]

\* The entries of a seed: nodes of the given kinds with the distinct ids
\* "n1", "n2", ... by position.
Entries(types) == [i \in 1..Len(types) |-> Node(types[i], "n" \o ToString(i))]

\* The keys a seed definition has: none at all, the entries only (the
\* baseline is then 0.5), or the entries and a baseline of 1.5.
SeedKeys == {"none", "entries", "baseline 1.5"}

\* The seed definition with the given entries and keys.
Seed(entries, keys) ==
    IF keys = "none" THEN [k \in {} |-> 0]
    ELSE IF keys = "entries" THEN [k \in {"entries"} |-> entries]
    ELSE [entries |-> entries, initial_confidence |-> 15000]

\* Contexts: the name of the calling agent, and a text that holds a
\* contradiction indicator (which is also the term of the concept node).
Contexts == {{"hume"}, {"paradox"}}

\* The params SKGRunner.run passes with a seed invocation.
Params == [claim_id |-> "claim", node_id |-> "SPACE_247"]

\* MiniSKGExecutor._evaluate_inference_rule: the confidence delta (no
\* contradiction is ever reported by it).
_evaluate_inference_rule(node) ==
    LET term == Get(node, "term", {})
        value == Get(node, "value", <<>>)
        certainty == Get(value, "certainty", 8000)
    IN  IF In({"modus_ponens"}, term) THEN (certainty * 1500) \div ONE
        ELSE IF In({"modus_tollens"}, term) THEN (certainty * 1200) \div ONE
        ELSE IF In({"syllogism"}, term) THEN (certainty * 1000) \div ONE
        ELSE (certainty * 800) \div ONE

\* MiniSKGExecutor._evaluate_method: the confidence delta.
_evaluate_method(node) ==
    LET term == Get(node, "term", {})
        definition == Get(node, "definition", {})
    IN  IF In({"deductive"}, term) THEN 1200
        ELSE IF In({"inductive"}, term) THEN 800
        ELSE IF In({"logical"}, definition) THEN 1000
        ELSE 600

\* MiniSKGExecutor._evaluate_concept: the confidence delta.
_evaluate_concept(node, context) ==
    500 + (IF In(Get(node, "term", {}), context) THEN 500 ELSE 0)

\* MiniSKGExecutor._detect_contradiction
_detect_contradiction(term, definition, context) ==
    \E indicator \in ContradictionIndicators :
        In({indicator}, term \cup definition \cup context)

\* MiniSKGExecutor._execute_node (the evaluation notes are left out).
_execute_node(node, params, context) ==
    LET node_id == Get(node, "id", "")
        term == Get(node, "term", {})
        node_type == Get(node, "type", "")
        definition == Get(node, "definition", {})
        evaluated ==
            IF node_type = "inference_rule" THEN _evaluate_inference_rule(node)
            ELSE IF node_type = "method" THEN _evaluate_method(node)
            ELSE IF node_type = "concept" THEN _evaluate_concept(node, context)
            ELSE 500
        contradiction_detected ==
            _detect_contradiction(term, definition, context)
        confidence_delta ==
            IF contradiction_detected THEN Max(evaluated - 3000, -5000) ELSE evaluated
    IN  [node_id |-> node_id,
         term |-> term,
         type |-> node_type,
         confidence_delta |-> confidence_delta,
         contradiction_detected |-> contradiction_detected,
         evaluation_context |-> context,
         params_used |-> DOMAIN params]

\* MiniSKGExecutor.__init__
MiniSKGExecutorInit(seed_json) ==
    [seed |-> seed_json,
     traversal_depth |-> 0,
     rule_results |-> <<>>,
     contradiction_flags |-> <<>>,
     confidence_accumulator |-> 0,
     base_confidence |-> Get(seed_json, "initial_confidence", 5000)]

\* `node["id"]` in the loop of traverse() raises a KeyError at the first
\* node without an id: the number of nodes the loop gets through before
\* it, which is all of them when every node has an id.
RECURSIVE NodesBeforeKeyError(_, _)
NodesBeforeKeyError(nodes, i) ==
    IF i > Len(nodes) \/ "id" \notin DOMAIN nodes[i] THEN i - 1
    ELSE NodesBeforeKeyError(nodes, i + 1)

\* The loop of traverse() from node i on: ex is the executor as the
\* iterations before left it.
RECURSIVE TraverseLoop(_, _, _, _, _)
TraverseLoop(nodes, i, params, context, ex) ==
    IF i > Len(nodes) \/ ex.traversal_depth >= NodeCap THEN ex
    ELSE LET node == nodes[i]
             result == _execute_node(node, params, context)
         IN  TraverseLoop(nodes, i + 1, params, context,
                [ex EXCEPT
                    !.rule_results = Put(@, node.id, result),
                    !.confidence_accumulator = @ + result.confidence_delta,
                    !.contradiction_flags =
                        IF result.contradiction_detected
                        THEN Append(@, node.id) ELSE @,
                    !.traversal_depth = @ + 1])

\* Mutant of CappedConfidence: the raw sum is returned.
CappedConfidence_Raw(raw_confidence) == raw_confidence

\* capped_confidence = max(0.0, min(1.0, raw_confidence))
CappedConfidence(raw_confidence) == Clamp(0, ONE, raw_confidence)

\* Mutant of traverse: the accumulator is not reset at the start of a call.
traverse_Accumulating(ex, params, context) ==
    LET reset == [ex EXCEPT !.rule_results = <<>>,
                            !.contradiction_flags = <<>>,
                            !.traversal_depth = 0]
        concept_nodes == Get(ex.seed, "entries", <<>>)
        capped == SubSeq(concept_nodes, 1, Min(Len(concept_nodes), NodeCap))
        reached == NodesBeforeKeyError(capped, 1)
        after == TraverseLoop(SubSeq(capped, 1, reached), 1, params, context, reset)
        raw_confidence == after.base_confidence + after.confidence_accumulator
    IN  [self |-> after,
         error |-> IF reached < Len(capped) THEN "KeyError: 'id'" ELSE "",
         result |-> [confidence_score |-> CappedConfidence(raw_confidence),
                     rule_results |-> after.rule_results,
                     contradiction_flags |-> after.contradiction_flags]]

\* MiniSKGExecutor.traverse: the executor after the call, the error
\* raised if any, and otherwise the MiniSKGResult returned.
traverse(ex, params, context) ==
    LET reset == [ex EXCEPT !.confidence_accumulator = 0,
                            !.rule_results = <<>>,
                            !.contradiction_flags = <<>>,
                            !.traversal_depth = 0]
        concept_nodes == Get(ex.seed, "entries", <<>>)
        capped == SubSeq(concept_nodes, 1, Min(Len(concept_nodes), NodeCap))
        reached == NodesBeforeKeyError(capped, 1)
        after == TraverseLoop(SubSeq(capped, 1, reached), 1, params, context, reset)
        raw_confidence == after.base_confidence + after.confidence_accumulator
    IN  [self |-> after,
         error |-> IF reached < Len(capped) THEN "KeyError: 'id'" ELSE "",
         result |-> [confidence_score |-> CappedConfidence(raw_confidence),
                     rule_results |-> after.rule_results,
                     contradiction_flags |-> after.contradiction_flags]]

\* enforce_seed_invariants: "ok", or the message of the RuntimeError.
enforce_seed_invariants(seed_result) ==
    IF "confidence_score" \notin DOMAIN seed_result
        THEN "Seed result missing confidence_score"
    ELSE IF ~(0 <= seed_result.confidence_score /\ seed_result.confidence_score <= ONE)
        THEN "Seed confidence out of bounds - accumulation uncapped"
    ELSE "ok"

\* executor = MiniSKGExecutor(seed_json)
NewExecutor ==
    /\ executor = [none |-> TRUE]
    /\ \E types \in SeqsUpTo(NodeTypes, MaxNodes), keys \in SeedKeys :
        executor' = MiniSKGExecutorInit(Seed(Entries(types), keys))
    /\ UNCHANGED traversal
    /\ UNCHANGED outsideExecutor

\* result = executor.traverse(params, context), followed by the seed
\* invariant check of invoke_logic_seed.
Traverse ==
    /\ executor # [none |-> TRUE]
    /\ \E context \in Contexts : \E t \in {traverse(executor, Params, context)} :
            /\ executor' = t.self
            /\ traversal' = IF t.error # ""
                            THEN [op |-> "raised",
                                  params |-> Params,
                                  context |-> context,
                                  error |-> t.error]
                            ELSE [op |-> "traverse",
                                  params |-> Params,
                                  context |-> context,
                                  result |-> t.result,
                                  invariants |-> enforce_seed_invariants(t.result)]
    /\ UNCHANGED outsideExecutor

NextExecutor ==
    \/ NewExecutor
    \/ Traverse

SpecExecutor == Init /\ [][NextExecutor]_vars

\* ------------------------------------------------------------------------
\* Properties of the mini-SKG executor (checked under SpecExecutor)
\* ------------------------------------------------------------------------

\* C14 -- Confidence cap: the confidence_score returned by traverse() is the
\* baseline of the seed (0.5 when the seed gives none) plus the sum of the
\* confidence deltas of the node results it returns, clamped to [0,1]; it
\* lies in [0,1] and the seed-invariant check passes.
C14_ConfidenceCap ==
    traversal.op = "traverse" =>
        LET r == traversal.result
            baseline == Get(executor.seed, "initial_confidence", 5000)
            total == baseline + SumDeltas(r.rule_results, DOMAIN r.rule_results)
        IN  /\ r.confidence_score =
                    (IF total < 0 THEN 0 ELSE IF total > ONE THEN ONE ELSE total)
            /\ 0 <= r.confidence_score /\ r.confidence_score <= ONE
            /\ traversal.invariants = "ok"

\* C14 witness: five inference rules of certainty 2.0 (+0.30 each) on the
\* default baseline 0.5 sum to 2.0, and the score returned is 1.0.
C14_Witness ==
    /\ traversal.op = "traverse"
    /\ "initial_confidence" \notin DOMAIN executor.seed
    /\ LET r == traversal.result
       IN  /\ Cardinality(DOMAIN r.rule_results) = 5
           /\ \A id \in DOMAIN r.rule_results : r.rule_results[id].confidence_delta = 3000
           /\ r.confidence_score = ONE

\* C15 -- Node cap: for a seed with n nodes traverse() evaluates the first
\* min(n,5) nodes, in order, and stops: the result holds one rule result for
\* each of them and for no other node, the contradiction flags are the ids of
\* those among them found contradictory, in order, and the whole result is
\* the result for the seed cut after its fifth node; so at most 5 rule
\* results and at most 5 flags.
C15_NodeCap ==
    traversal.op = "traverse" =>
        LET r == traversal.result
            entries == Get(executor.seed, "entries", <<>>)
            k == IF Len(entries) < 5 THEN Len(entries) ELSE 5
            first == SubSeq(entries, 1, k)
            cut == [key \in DOMAIN executor.seed |->
                        IF key = "entries" THEN first ELSE executor.seed[key]]
            flagged(i) == _execute_node(entries[i], traversal.params,
                                        traversal.context).contradiction_detected
        IN  /\ executor.traversal_depth = k
            /\ DOMAIN r.rule_results = {entries[i].id : i \in 1..k}
            /\ \A i \in 1..k :
                    r.rule_results[entries[i].id] =
                        _execute_node(entries[i], traversal.params, traversal.context)
            /\ \A j \in 1..Len(r.contradiction_flags) :
                    \E i \in 1..k :
                        /\ r.contradiction_flags[j] = entries[i].id
                        /\ flagged(i)
                        /\ Cardinality({h \in 1..i : flagged(h)}) = j
            /\ Len(r.contradiction_flags) = Cardinality({i \in 1..k : flagged(i)})
            /\ r = traverse(MiniSKGExecutorInit(cut), traversal.params,
                            traversal.context).result
            /\ Cardinality(DOMAIN r.rule_results) <= 5
            /\ Len(r.contradiction_flags) <= 5

\* C15 witness: a seed of six nodes whose sixth is the contradictory
\* concept: five rule results, none for "n6", and "n6" is not flagged.
C15_Witness ==
    /\ traversal.op = "traverse"
    /\ "entries" \in DOMAIN executor.seed
    /\ Len(executor.seed.entries) = 6
    /\ executor.seed.entries[6].type = "concept"
    /\ executor.seed.entries[1].type = "concept"
    /\ executor.traversal_depth = 5
    /\ DOMAIN traversal.result.rule_results = {"n1", "n2", "n3", "n4", "n5"}
    /\ traversal.result.contradiction_flags = <<"n1">>

\* ========================================================================
\* One shadow, its trigger and its contribution
\* ========================================================================

\* Mini-SKG results for emit_shadow: 0, 1 or 2 contradiction flags; a
\* confidence score below, at and above the confidence thresholds (0.15
\* configured, 0.2 by default); node deltas whose entropy marker is 0, 0.1,
\* 0.8 and 0.9.
TriggerResults ==
    LET spread(kind) ==
            IF kind = "flat" THEN [n \in {"n1"} |-> [confidence_delta |-> 500]]
            ELSE IF kind = "0.1"
                THEN [n \in {"n1", "n2"} |->
                        [confidence_delta |-> IF n = "n1" THEN -1000 ELSE 1000]]
            ELSE IF kind = "0.8"
                THEN [n \in {"n1", "n2", "n3", "n4"} |->
                        [confidence_delta |-> IF n = "n1" THEN -4000
                                              ELSE IF n = "n4" THEN 4000 ELSE 0]]
            ELSE [n \in {"n1", "n2"} |->
                    [confidence_delta |-> IF n = "n1" THEN -3000 ELSE 3000]]
    IN  {[confidence_score |-> score,
          rule_results |-> spread(kind),
          contradiction_flags |-> flags] :
            score \in {1000, 1500, 2000, 8000},
            kind \in {"flat", "0.1", "0.8", "0.9"},
            flags \in {<<>>, <<"n1">>, <<"n1", "n2">>}}

\* Trigger configurations: the one of SeedInvocationLayer; none (the
\* defaults 0, 0.2, 0.8 of _evaluate_triggers); a contradiction threshold
\* below zero; and one that lets only the entropy trigger through.
TriggerConfigs ==
    {ShadowTriggers,
     [k \in {} |-> 0],
     [k \in {"contradiction_threshold"} |-> -1],
     [contradiction_threshold |-> 2,
      confidence_delta_threshold |-> 20000,
      entropy_spike_threshold |-> 500]}

\* Base metrics in [0,1]: the defaults of BeamMetrics, metrics near 1,
\* metrics near 0, and a mapping with the confidence only.
EdgeMetrics ==
    {[confidence |-> 5000, entropy |-> 5000, contradiction |-> 0],
     [confidence |-> 9500, entropy |-> 9800, contradiction |-> 9900],
     [confidence |-> 500, entropy |-> 200, contradiction |-> 100],
     [k \in {"confidence"} |-> 5000]}

\* hume's seed invocation emits for kant while the registry is empty.
EmitSingle ==
    /\ TotalShadows(active_shadows, DOMAIN active_shadows) < 1
    /\ \E result \in TriggerResults, conditions \in TriggerConfigs :
            emit_shadow("hume", "SPACE_247", "kant", result, conditions)
    /\ UNCHANGED outsideShadow

\* kant applies the shadows at the node to its metrics.
ApplyEdge ==
    \E base \in EdgeMetrics : apply_shadows_to_metrics("kant", "SPACE_247", base)

NextContribution ==
    \/ EmitSingle
    \/ ApplyEdge

SpecContribution == Init /\ [][NextContribution]_vars

\* ------------------------------------------------------------------------
\* Properties of one shadow (checked under SpecContribution)
\* ------------------------------------------------------------------------

\* The trigger kind the priority rule gives when the contradiction test is
\* "count > threshold" (strict = TRUE) or "count >= threshold".
TriggerKind(r, c, strict) ==
    LET count == Len(r.contradiction_flags)
        threshold == Get(c, "contradiction_threshold", 0)
    IN  IF (IF strict THEN count > threshold ELSE count >= threshold)
            THEN "HIGH_CONTRADICTION"
        ELSE IF r.confidence_score >= Get(c, "confidence_delta_threshold", 2000)
            THEN "CONFIDENCE_DELTA"
        ELSE IF _calculate_entropy_marker(r) >= Get(c, "entropy_spike_threshold", 8000)
            THEN "ENTROPY_SPIKE"
        ELSE "none"

\* What an emit step does when the priority rule gives `kind`.
EmitFollows(kind) ==
    IF kind = "none"
    THEN ret'.result = None /\ active_shadows' = active_shadows
    ELSE /\ ret'.result # None
         /\ ret'.result.trigger_type = kind
         /\ LET k == TargetKey(ret'.evaluation_target, ret'.node_location)
            IN  active_shadows'[k] = Append(Get(active_shadows, k, <<>>), ret'.result)

\* C16 as stated: HIGH_CONTRADICTION whenever the number of contradiction
\* flags is >= the configured contradiction threshold.
C16_AsStated ==
    [][ret'.op = "emit_shadow" =>
        EmitFollows(TriggerKind(ret'.mini_skg_result, ret'.trigger_conditions, FALSE))]_vars

\* C16 -- Trigger priority of emit: the kind is HIGH_CONTRADICTION whenever
\* the number of contradiction flags is greater than the configured
\* contradiction threshold (0 if not configured); otherwise CONFIDENCE_DELTA
\* whenever the confidence score is >= the confidence threshold (0.2 if not
\* configured); otherwise ENTROPY_SPIKE whenever the entropy marker is >= the
\* entropy threshold (0.8 if not configured); otherwise emit returns none and
\* stores no artifact.  An artifact of the kind found is appended at its key.
C16_TriggerPriority ==
    [][ret'.op = "emit_shadow" =>
        EmitFollows(TriggerKind(ret'.mini_skg_result, ret'.trigger_conditions, TRUE))]_vars

\* C16 witness: one contradiction flag under a contradiction threshold of 1
\* and a confidence score of 0.8: the artifact emitted is a CONFIDENCE_DELTA.
C16_Witness ==
    /\ ret.op = "emit_shadow"
    /\ Len(ret.mini_skg_result.contradiction_flags) = 1
    /\ ret.trigger_conditions = ShadowTriggers
    /\ ret.mini_skg_result.confidence_score = 8000
    /\ ret.result # None
    /\ ret.result.trigger_type = "CONFIDENCE_DELTA"

\* An apply step that adjusts with exactly one live artifact, of another
\* agent, at its key; and that artifact.
AppliesOne ==
    /\ ret'.op = "apply_shadows_to_metrics"
    /\ LET k == TargetKey(ret'.target_skg, ret'.node_location)
       IN  /\ k \in DOMAIN active_shadows
           /\ Len(FreshAt(active_shadows[k], now)) = 1
           /\ Len(NotFrom(FreshAt(active_shadows[k], now), ret'.target_skg)) = 1
           /\ Get(node_adjustment_counts, k, 0) < 3

TheOne == FreshAt(active_shadows[TargetKey(ret'.target_skg, ret'.node_location)], now)[1]

\* What an apply step of one artifact does when the artifact contributes d.
Contributes(d) ==
    LET k == TargetKey(ret'.target_skg, ret'.node_location)
    IN  /\ node_cumulative_deltas'[k] = Get(node_cumulative_deltas, k, 0) + d
        /\ ret'.result.confidence =
                Max(0, Min(ONE, ret'.base_metrics.confidence + d))

\* C17 as stated: CONFIDENCE_DELTA contributes 0.3 times the stored
\* confidence delta and ENTROPY_SPIKE minus 0.2 times the entropy marker, for
\* every stored delta and marker in [0,1].
C17_AsStated ==
    [][AppliesOne =>
        Contributes(IF TheOne.trigger_type = "HIGH_CONTRADICTION"
                        THEN (IF TheOne.contradiction_flag THEN -1500 ELSE 0)
                    ELSE IF TheOne.trigger_type = "CONFIDENCE_DELTA"
                        THEN (3 * TheOne.confidence_delta) \div 10
                    ELSE -((2 * TheOne.entropy_marker) \div 10))]_vars

\* C17 -- Per-kind contribution in apply: a HIGH_CONTRADICTION artifact
\* contributes -0.15 if its contradiction flag is set and 0 otherwise; a
\* CONFIDENCE_DELTA artifact contributes 0.3 times its stored confidence
\* delta but at most 0.10; an ENTROPY_SPIKE artifact contributes minus 0.2
\* times its entropy marker but at least -0.08.
C17_PerKindContribution ==
    [][AppliesOne =>
        Contributes(IF TheOne.trigger_type = "HIGH_CONTRADICTION"
                        THEN (IF TheOne.contradiction_flag THEN -1500 ELSE 0)
                    ELSE IF TheOne.trigger_type = "CONFIDENCE_DELTA"
                        THEN (IF 3 * TheOne.confidence_delta > 10000
                              THEN 1000 ELSE (3 * TheOne.confidence_delta) \div 10)
                    ELSE (IF 2 * TheOne.entropy_marker > 8000
                          THEN -800 ELSE -((2 * TheOne.entropy_marker) \div 10)))]_vars

\* C17 witness: a CONFIDENCE_DELTA artifact storing 0.8 was applied once to
\* the default metrics: the cumulative delta is 0.10 (not 0.24) and the
\* confidence 0.60.
C17_Witness ==
    /\ ret.op = "apply_shadows_to_metrics"
    /\ LET k == TargetKey(ret.target_skg, ret.node_location)
       IN  /\ k \in DOMAIN active_shadows /\ k \in DOMAIN node_cumulative_deltas
           /\ Len(active_shadows[k]) = 1
           /\ active_shadows[k][1].trigger_type = "CONFIDENCE_DELTA"
           /\ active_shadows[k][1].confidence_delta = 8000
           /\ node_adjustment_counts[k] = 1
           /\ node_cumulative_deltas[k] = 1000
    /\ ret.base_metrics.confidence = 5000
    /\ ret.result.confidence = 6000

\* C18 -- Metric application: an apply that adjusts base metrics in [0,1]
\* with clamped total t returns confidence clamp01(confidence + t), entropy
\* clamp01(entropy - 0.5 t) and contradiction clamp01(contradiction + 0.3 t)
\* for the keys the base metrics have and no other key; each returned metric
\* is within [0,1]; the caller's mapping is as it was passed.
C18_MetricApplication ==
    [][(/\ ret'.op = "apply_shadows_to_metrics"
        /\ LET k == TargetKey(ret'.target_skg, ret'.node_location)
           IN  /\ k \in DOMAIN active_shadows
               /\ FreshAt(active_shadows[k], now) # <<>>
               /\ Get(node_adjustment_counts, k, 0) < 3)
       => LET k == TargetKey(ret'.target_skg, ret'.node_location)
              base == ret'.base_metrics
              res == ret'.result
              sum == SumAdjustments(NotFrom(FreshAt(active_shadows[k], now),
                                            ret'.target_skg))
              t == IF sum < -2500 THEN -2500 ELSE IF sum > 2500 THEN 2500 ELSE sum
              clamp01x10(x) == IF x < 0 THEN 0 ELSE IF x > 10 * ONE THEN 10 * ONE ELSE x
          IN  /\ DOMAIN res = DOMAIN base
              /\ "confidence" \in DOMAIN base =>
                    10 * res.confidence = clamp01x10(10 * base.confidence + 10 * t)
              /\ "entropy" \in DOMAIN base =>
                    10 * res.entropy = clamp01x10(10 * base.entropy - 5 * t)
              /\ "contradiction" \in DOMAIN base =>
                    10 * res.contradiction = clamp01x10(10 * base.contradiction + 3 * t)
              /\ \A key \in DOMAIN res : 0 <= res[key] /\ res[key] <= ONE
              /\ ret'.caller_metrics = base]_vars

\* C18 witness: total +0.10 applied to metrics near 1: confidence 0.95 and
\* contradiction 0.99 both come back as 1.0, entropy 0.98 as 0.93.
C18_Witness ==
    /\ ret.op = "apply_shadows_to_metrics"
    /\ ret.base_metrics = [confidence |-> 9500, entropy |-> 9800, contradiction |-> 9900]
    /\ ret.result = [confidence |-> ONE, entropy |-> 9300, contradiction |-> ONE]
    /\ ret.caller_metrics = ret.base_metrics

\* ========================================================================
\* Multi-beam orchestrator
\* ========================================================================

\* Largest number of runners handed to MultiBeamRunner(...).
MaxRunners == 5

\* Largest number of passes run by one orchestrator.
MaxPasses == 2

\* The skg ids of the runners UCMReasoningCore builds, in its order.
CoreRunners == <<"hume", "kant", "locke", "spinoza">>

\* Runner lists handed to MultiBeamRunner(...): the first n runners of the
\* core's list repeated, for every n up to the bound, and the core's four
\* in the opposite order.  A runner is represented by its skg_id.
RunnerLists ==
    {[i \in 1..n |-> CoreRunners[((i - 1) % 4) + 1]] : n \in 0..MaxRunners}
        \cup {[i \in 1..4 |-> CoreRunners[5 - i]]}

\* Mutant of BeamCountOK: only too few beams are refused.
BeamCountOK_AtLeast(n) == n >= 4

\* The negation of the test "len(self.beams) != 4".
BeamCountOK(n) == n = 4

\* MultiBeamRunner.__init__: the object, or the ValueError raised.  A beam
\* is represented by its skg_id; the propagator handed over is the core's.
MultiBeamRunnerInit(skg_runners) ==
    LET beams == skg_runners
    IN  IF ~BeamCountOK(Len(beams))
        THEN [status |-> "ValueError",
              skg_runners |-> skg_runners,
              error |-> "MultiBeamRunner requires exactly 4 SKG beams, got "
                            \o ToString(Len(beams))]
        ELSE [status |-> "ready",
              skg_runners |-> skg_runners,
              beams |-> beams]

\* self.multi_beam = MultiBeamRunner(self.skg_runners, self.shadow_propagator)
NewMultiBeamRunner ==
    /\ multi_beam.status # "ready"
    /\ \E skg_runners \in RunnerLists :
            multi_beam' = MultiBeamRunnerInit(skg_runners)
    /\ UNCHANGED <<core_propagator, pass>>
    /\ UNCHANGED shadowVars
    /\ UNCHANGED outsideBeams

\* The claims deliberated: two propositions.
Claims == {[proposition |-> "rain"], [proposition |-> "tax"]}

\* What open(seed_path) finds at seed_deductive_reasoner.json: no file; a
\* seed without entries (score 0.5: a confidence trigger); a seed of two
\* contradictory concepts (two flags: a contradiction trigger); a seed
\* without entries and a baseline of 0.1 (no trigger).
SeedFiles ==
    {[missing |-> TRUE],
     [entries |-> <<>>],
     [entries |-> Entries(<<"concept", "concept">>)],
     [entries |-> <<>>, initial_confidence |-> 1000]}

\* SeedInvocationLayer.invoke_logic_seed up to its call of emit_shadow:
\* whether emit_shadow is called and with which result, and the "confidence"
\* of the dict returned.
invoke_logic_seed(seed_file, params, calling_skg) ==
    IF seed_file = [missing |-> TRUE]
    THEN [emits |-> FALSE, confidence |-> 8000]
    ELSE LET executor_ == MiniSKGExecutorInit(seed_file)
             result == traverse(executor_, params, {calling_skg}).result
         IN  IF enforce_seed_invariants(result) # "ok"
             THEN [emits |-> FALSE, confidence |-> 1000]
             ELSE [emits |-> TRUE,
                   skg_origin |-> calling_skg,
                   node_location |-> Get(params, "node_id", "unknown_node"),
                   evaluation_target |-> Get(params, "claim_id", "unknown_claim"),
                   mini_skg_result |-> result,
                   confidence |-> result.confidence_score]

\* The nodes SKGRunner.run walks: the entry node, then node_1 .. node_11.
Trajectory == [k \in 1..12 |-> IF k = 1 THEN "SPACE_247" ELSE "node_" \o ToString(k - 1)]

\* SKGRunner.run: the seed invocation of the third node and the dict
\* returned.
SKGRunnerRun(skg_id, claim, seed_file) ==
    LET invocation ==
            invoke_logic_seed(seed_file,
                              [claim_id |-> Get(claim, "proposition", ""),
                               node_id |-> Trajectory[3]],
                              skg_id)
    IN  [invocation |-> invocation,
         cvv |-> [confidence |-> invocation.confidence,
                  contradiction |-> 0,
                  entropy |-> 5000,
                  coverage |-> 8000,
                  falsified |-> FALSE,
                  skg_id |-> skg_id],
         reasoning_path |-> Trajectory,
         shadow_artifacts |-> <<>>]

\* MultiBeamRunner.run, its first lines: cvvs = [], beam_metadata = {}.
RunBegin ==
    /\ multi_beam.status = "ready"
    /\ pass.pc \in {"idle", "done"}
    /\ pass.runs < MaxPasses
    /\ \E claim \in Claims, seed_file \in SeedFiles :
            pass' = [pc |-> "beams",
                     runs |-> pass.runs,
                     claim |-> claim,
                     seed_file |-> seed_file,
                     i |-> 1,
                     cvvs |-> <<>>,
                     beam_metadata |-> <<>>]
    /\ UNCHANGED <<multi_beam, core_propagator>>
    /\ UNCHANGED shadowVars
    /\ UNCHANGED outsideBeams

\* MultiBeamRunner.run, one iteration of its loop: set_active_skg on the
\* orchestrator's propagator, then beam.run(claim), whose seed invocation
\* emits through the invocation layer's propagator.
RunBeam ==
    /\ pass.pc = "beams"
    /\ pass.i <= Len(multi_beam.beams)
    /\ \E skg_id \in {multi_beam.beams[pass.i]} :
       \E result \in {SKGRunnerRun(skg_id, pass.claim, pass.seed_file)} :
       \E call \in {result.invocation} :
           /\ core_propagator' = [core_propagator EXCEPT !.active_skg = skg_id]
           /\ IF call.emits
              THEN emit_shadow(call.skg_origin, call.node_location,
                               call.evaluation_target, call.mini_skg_result,
                               ShadowTriggers)
              ELSE /\ ret' = [op |-> "none"]
                   /\ UNCHANGED <<now, active_shadows, node_adjustment_counts,
                                  node_cumulative_deltas>>
           /\ pass' = [pass EXCEPT
                        !.i = @ + 1,
                        !.cvvs = Append(@, result.cvv),
                        !.beam_metadata =
                            Put(@, skg_id,
                                [trajectory_length |-> Len(result.reasoning_path),
                                 shadows_emitted |-> Len(result.shadow_artifacts),
                                 adjustments_applied |-> 0,
                                 final_confidence |-> result.cvv.confidence,
                                 final_entropy |-> result.cvv.entropy])]
    /\ UNCHANGED multi_beam
    /\ UNCHANGED outsideBeams

\* MultiBeamRunner.run, after its loop: the resonance markers of the
\* orchestrator's propagator and the MultiBeamResult.
RunFinish ==
    /\ pass.pc = "beams"
    /\ pass.i > Len(multi_beam.beams)
    /\ pass' = [pc |-> "done",
                runs |-> pass.runs + 1,
                claim |-> pass.claim,
                seed_file |-> pass.seed_file,
                result |-> [cvvs |-> pass.cvvs,
                            shadow_registry |-> core_propagator,
                            resonance_markers |->
                                ResonanceMarkers(core_propagator.active_shadows, now),
                            beam_metadata |-> pass.beam_metadata]]
    /\ UNCHANGED <<multi_beam, core_propagator>>
    /\ UNCHANGED shadowVars
    /\ UNCHANGED outsideBeams

NextBeams ==
    \/ NewMultiBeamRunner
    \/ RunBegin
    \/ RunBeam
    \/ RunFinish
    \/ Tick

SpecBeams == Init /\ [][NextBeams]_vars

\* ------------------------------------------------------------------------
\* Claims about the orchestrator
\* ------------------------------------------------------------------------

\* C19 (fixed arity): MultiBeamRunner(...) with a number of runners other
\* than 4 raises the ValueError that names the count and yields no
\* orchestrator, so that no pass ever runs on it; with exactly 4 runners
\* it yields an orchestrator with one beam per runner, in the runners'
\* order.
C19_FixedArity ==
    /\ multi_beam.status # "none" =>
        IF Len(multi_beam.skg_runners) = 4
        THEN /\ multi_beam.status = "ready"
             /\ multi_beam.beams = multi_beam.skg_runners
        ELSE /\ multi_beam.status = "ValueError"
             /\ "beams" \notin DOMAIN multi_beam
             /\ multi_beam.error = "MultiBeamRunner requires exactly 4 SKG beams, got "
                                        \o ToString(Len(multi_beam.skg_runners))
    /\ (pass.pc # "idle" \/ pass.runs > 0) =>
        /\ multi_beam.status = "ready"
        /\ Len(multi_beam.beams) = 4

\* C19 witness: a construction with five runners has failed.
C19_Witness ==
    /\ multi_beam.status = "ValueError"
    /\ Len(multi_beam.skg_runners) = 5

\* A step of a pass in which one beam ran.
BeamStep == pass.pc = "beams" /\ pass'.pc = "beams" /\ pass'.i = pass.i + 1

\* The step that ends a pass.
FinishStep == pass.pc = "beams" /\ pass'.pc = "done"

\* The beam that runs is the next one of the declared order, and the beams
\* before it have all finished: their records are the ones collected.
BeamsRunInOrder ==
    BeamStep =>
        /\ Len(pass.cvvs) = pass.i - 1
        /\ Len(pass'.cvvs) = pass.i
        /\ pass'.cvvs[pass.i].skg_id = multi_beam.skg_runners[pass.i]
        /\ \A k \in 1..(pass.i - 1) : pass'.cvvs[k] = pass.cvvs[k]

\* An artifact emitted by the beam that ran is, when the beam ends, stored
\* live at its key in the registry the beams emit into, behind the artifacts
\* of the beams before it, which are all still there.
EarlierShadowsVisible ==
    (BeamStep /\ ret'.op = "emit_shadow" /\ ret'.result # None) =>
        LET key == TargetKey(ret'.evaluation_target, ret'.node_location)
            before == Get(active_shadows, key, <<>>)
        IN  /\ ret'.skg_origin = multi_beam.skg_runners[pass.i]
            /\ key \in DOMAIN active_shadows'
            /\ active_shadows'[key] = Append(before, ret'.result)
            /\ ~is_expired(ret'.result, now')

\* The resonance markers a pass returns are those of the registry its beams
\* emitted into.
ResonanceOfTheAgentsRegistry ==
    FinishStep =>
        pass'.result.resonance_markers = ResonanceMarkers(active_shadows', now')

\* C20 (sequential shared visibility): in a pass the beams run one at a
\* time in the declared order; every artifact a beam emits is in the shared
\* registry, live at its key, before the next beam starts; and the resonance
\* markers the pass returns are computed from the registry the beams
\* emitted into.
C20_SequentialSharedVisibility ==
    [][BeamsRunInOrder /\ EarlierShadowsVisible /\ ResonanceOfTheAgentsRegistry]_vars

\* The first two parts of C20 alone.
SequentialVisibility == [][BeamsRunInOrder /\ EarlierShadowsVisible]_vars

\* A pass has ended whose four beams each left a live artifact at one key
\* of the registry they emit into, and whose result reports no resonance.
FourShadowsNoResonance ==
    /\ pass.pc = "done"
    /\ \E key \in DOMAIN active_shadows :
            Len(LiveShadows(active_shadows[key], now)) >= 4
    /\ pass.result.resonance_markers.total_resonance_events = 0
    /\ pass.result.resonance_markers.active_shadows = 0

\* The step that starts a deliberation on a claim other than the one the
\* core deliberated before.
NextDeliberationStep ==
    pass.pc = "done" /\ pass'.pc = "beams" /\ pass'.claim # pass.claim

\* Neither propagator of the core holds an artifact, an adjustment count or
\* a cumulative delta.
PropagatorsClean ==
    /\ active_shadows = <<>>
    /\ node_adjustment_counts = <<>>
    /\ node_cumulative_deltas = <<>>
    /\ core_propagator.active_shadows = <<>>
    /\ core_propagator.node_adjustment_counts = <<>>
    /\ core_propagator.node_cumulative_deltas = <<>>

\* C21 (session scoping): when a core that has deliberated one claim starts
\* the deliberation of an unrelated claim, no artifact, adjustment count or
\* cumulative delta of the first deliberation is present in the propagator.
C21_SessionScoping == [][NextDeliberationStep => PropagatorsClean]_vars

\* A second deliberation, on another claim, is under way while the
\* registry still holds the four artifacts of the first at the first
\* claim's key.
SecondDeliberationSeesFirst ==
    /\ pass.pc = "beams"
    /\ pass.runs = 1
    /\ \E key \in DOMAIN active_shadows :
            /\ Len(active_shadows[key]) = 4
            /\ \A k \in 1..4 :
                    active_shadows[key][k].evaluation_target # pass.claim.proposition

\* ========================================================================
\* Record signatures
\* ========================================================================

\* f"{x:.4f}" for a scalar x given with five decimals, in tenths of the
\* fixed-point unit: the nearest value with four decimals, as fixed point.
\* (No scalar of the model lies halfway between two of them.)
Format4(x) == Round4(x, 10)

\* CVV.signature for a record whose scalars are given with five decimals:
\* the payload, sha3_256 being taken to be injective on payloads.
signature5(c) ==
    <<Format4(c.confidence), Format4(c.contradiction), Format4(c.entropy),
      Format4(c.coverage), c.falsified, c.skg_id>>

\* Records with five-decimal scalars: confidences 0.84996, 0.85 and 0.85004
\* (equal when printed with four decimals) and 0.42, 0.43 (the test's),
\* contradictions 0.1 and 0.10004, coverages 0.8 and 0.79996.
CVVs5 ==
    [confidence : {84996, 85000, 85004, 42000, 43000},
     contradiction : {10000, 10004},
     entropy : {30000},
     coverage : {80000, 79996},
     falsified : BOOLEAN,
     skg_id : {"id", "hume"}]

\* cvv1.signature() and cvv2.signature() of two records, once.
Sign ==
    /\ signed.op = "none"
    /\ \E cvv1 \in CVVs5, cvv2 \in CVVs5 :
            signed' = [op |-> "signature",
                       cvv1 |-> cvv1,
                       cvv2 |-> cvv2,
                       signature1 |-> signature5(cvv1),
                       signature2 |-> signature5(cvv2)]
    /\ UNCHANGED outsideSign

NextSign == Sign

SpecSign == Init /\ [][NextSign]_vars

\* C22 (signature stability): two records with identical fields have
\* identical signatures, and two records that differ in any field, by any
\* amount, have different signatures.
C22_SignatureStability ==
    signed.op = "signature" =>
        (signed.signature1 = signed.signature2 <=> signed.cvv1 = signed.cvv2)

\* What the signature does tell apart: the agent id, the falsified flag and
\* each scalar as printed with four decimals.
SignatureOfPrintedFields ==
    signed.op = "signature" =>
        (signed.signature1 = signed.signature2 <=>
            /\ signed.cvv1.skg_id = signed.cvv2.skg_id
            /\ signed.cvv1.falsified = signed.cvv2.falsified
            /\ \A f \in {"confidence", "contradiction", "entropy", "coverage"} :
                    Format4(signed.cvv1[f]) = Format4(signed.cvv2[f]))

\* Two records on either side of the 0.85 confidence threshold of the
\* single-record rule carry one signature.
SameSignatureAcrossThreshold ==
    /\ signed.op = "signature"
    /\ signed.cvv1.confidence < 85000
    /\ signed.cvv2.confidence >= 85000
    /\ signed.signature1 = signed.signature2

\* ========================================================================
\* The audit payload of a verdict
\* ========================================================================

\* Largest number of records of an engine whose payload is examined; with
\* three records the means fall between the four-decimal values.
MaxAuditCVVs == 3

\* Records of four agents: a strong clean one, a weak one of low coverage
\* and high entropy, a highly contradictory one, a falsified one, and a
\* fair one of high entropy.
AuditCVVs ==
    {[confidence |-> 8500, contradiction |-> 1000, entropy |-> 5000,
      coverage |-> 9000, falsified |-> FALSE, skg_id |-> "hume"],
     [confidence |-> 4500, contradiction |-> 1000, entropy |-> 9000,
      coverage |-> 3500, falsified |-> FALSE, skg_id |-> "kant"],
     [confidence |-> 7500, contradiction |-> 7000, entropy |-> 5000,
      coverage |-> 9000, falsified |-> FALSE, skg_id |-> "locke"],
     [confidence |-> 4500, contradiction |-> 1000, entropy |-> 5000,
      coverage |-> 9000, falsified |-> TRUE, skg_id |-> "spinoza"],
     [confidence |-> 7500, contradiction |-> 1000, entropy |-> 9000,
      coverage |-> 9000, falsified |-> FALSE, skg_id |-> "kant"]}

\* A caller constructs one engine from up to three of these records.
ConstructAudit ==
    /\ ecm = "none"
    /\ \E cs \in SeqsUpTo(AuditCVVs, MaxAuditCVVs), adv \in Advisories :
            ECMRuntimeInit(cs, adv)

NextAudit ==
    \/ ConstructAudit
    \/ Decide

SpecAudit == Init /\ [][NextAudit]_vars

\* r is the mean of the field over the records, rounded to four decimals:
\* no four-decimal value is nearer to the mean (0 for no records).
IsRoundedMean(r, cs, attr) ==
    IF cs = <<>> THEN r = 0
    ELSE LET d == r * Len(cs) - SumAttr(cs, attr)
         IN  2 * (IF d < 0 THEN -d ELSE d) <= Len(cs)

\* C23 (audit payload): every verdict decide returns carries the mean
\* confidence, entropy and coverage of the records rounded to 4 decimals
\* (0.0 for the empty set), one signature per record in input order, the
\* millisecond timestamp of the call, and the flag invariants_checked set.
C23_AuditPayload ==
    ecm = "decided" =>
        /\ IsRoundedMean(verdict.avg_confidence, cvvs, "confidence")
        /\ IsRoundedMean(verdict.avg_entropy, cvvs, "entropy")
        /\ IsRoundedMean(verdict.avg_coverage, cvvs, "coverage")
        /\ Len(verdict.cvv_signatures) = Len(cvvs)
        /\ \A i \in 1..Len(cvvs) :
                verdict.cvv_signatures[i] =
                    <<cvvs[i].confidence, cvvs[i].contradiction, cvvs[i].entropy,
                      cvvs[i].coverage, cvvs[i].falsified, cvvs[i].skg_id>>
        /\ verdict.timestamp_ms = now
        /\ verdict.audit = [invariants_checked |-> TRUE]

\* C23 witness: a verdict over three records of three agents whose mean
\* confidence, entropy and coverage all lie between four-decimal values.
C23_Witness ==
    /\ ecm = "decided"
    /\ Len(cvvs) = 3
    /\ Cardinality({cvvs[i].skg_id : i \in 1..3}) = 3
    /\ \A attr \in {"confidence", "entropy", "coverage"} : SumAttr(cvvs, attr) % 3 # 0
    /\ Len(verdict.cvv_signatures) = 3

\* ========================================================================
\* Invariant enforcement
\* ========================================================================

\* 1.0 for a probability, which is given with seven decimals.
PROB_ONE == 10000000

\* sum(softmax_probs)
RECURSIVE SumProbs(_)
SumProbs(probs) == IF probs = <<>> THEN 0 ELSE probs[1] + SumProbs(Tail(probs))

\* Mutant of IsCloseToOne: only the exact sum is accepted.
IsCloseToOne_Exact(x) == x = PROB_ONE

\* math.isclose(x, 1.0, abs_tol=1e-6): |x - 1| <= max(1e-9 * max(|x|, 1), 1e-6).
\* The relative term, rounded up to the seven decimals, decides only for
\* |x| > 1000, where x is not close to 1 either way.
IsCloseToOne(x) ==
    LET diff == IF x < PROB_ONE THEN PROB_ONE - x ELSE x - PROB_ONE
        big  == Max(IF x < 0 THEN -x ELSE x, PROB_ONE)
    IN  diff <= Max((big + 999999999) \div 1000000000, 10)

\* enforce_invariants: "ok", or the message of the error it raises.
enforce_invariants(cs, softmax_probs) ==
    IF ~IsCloseToOne(SumProbs(softmax_probs))
        THEN "Invariant breach: softmax probabilities do not sum to 1"
    ELSE IF \E i \in 1..Len(cs) :
                validate(cs[i]) # "ok" \/ (cs[i].falsified /\ cs[i].confidence > 0)
        THEN LET i == CHOOSE k \in 1..Len(cs) :
                        /\ validate(cs[k]) # "ok" \/ (cs[k].falsified /\ cs[k].confidence > 0)
                        /\ \A j \in 1..(k - 1) :
                                validate(cs[j]) = "ok" /\ ~(cs[j].falsified /\ cs[j].confidence > 0)
             IN  IF validate(cs[i]) # "ok" THEN validate(cs[i])
                 ELSE "Invariant breach: falsified CVV has confidence > 0"
    ELSE "ok"

\* Probability lists: one certain outcome; three thirds that sum to 1;
\* two halves that sum to 1 + 0.9e-6, 1 - 0.9e-6, 1 + 1.1e-6 and
\* 1 - 1.1e-6; the test's three times 0.3; no probability at all.
ProbabilityLists ==
    {<<PROB_ONE>>,
     <<3333333, 3333333, 3333334>>,
     <<5000000, 5000009>>, <<5000000, 4999991>>,
     <<5000000, 5000011>>, <<5000000, 4999989>>,
     <<3000000, 3000000, 3000000>>,
     <<>>}

\* Records handed to enforce_invariants: those of the audit, a falsified
\* record of confidence 0, and a record whose coverage is out of range.
EnforceCVVs ==
    AuditCVVs \cup
    {[confidence |-> 0, contradiction |-> 1000, entropy |-> 5000,
      coverage |-> 9000, falsified |-> TRUE, skg_id |-> "spinoza"],
     [confidence |-> 8500, contradiction |-> 1000, entropy |-> 5000,
      coverage |-> ONE + 100, falsified |-> FALSE, skg_id |-> "hume"]}

\* enforce_invariants(cvvs, softmax_probs), once.
Enforce ==
    /\ enforced.op = "none"
    /\ \E cs \in SeqsUpTo(EnforceCVVs, MaxCVVs), softmax_probs \in ProbabilityLists :
            enforced' = [op |-> "enforce_invariants",
                         cvvs |-> cs,
                         softmax_probs |-> softmax_probs,
                         result |-> enforce_invariants(cs, softmax_probs)]
    /\ UNCHANGED outsideEnforce

NextEnforce == Enforce

SpecEnforce == Init /\ [][NextEnforce]_vars

\* The record invariants enforce_invariants enforces: every scalar in
\* [0,1], and no falsified record with a confidence above 0.
RecordInvariants(cs) ==
    \A i \in 1..Len(cs) :
        /\ \A f \in {"confidence", "contradiction", "entropy", "coverage"} :
                0 <= cs[i][f] /\ cs[i][f] <= ONE
        /\ ~(cs[i].falsified /\ cs[i].confidence > 0)

\* C24 (the audit flag): decide returns a verdict with invariants_checked
\* set only for records that satisfy the record invariants enforced by
\* enforce_invariants, which would pass on them.
C24_AuditFlag ==
    (ecm = "decided" /\ verdict.audit.invariants_checked) =>
        /\ RecordInvariants(cvvs)
        /\ enforce_invariants(cvvs, <<PROB_ONE>>) = "ok"

\* A verdict with the flag set has been returned for records on which
\* enforce_invariants raises.
FlagSetOnBreach ==
    /\ ecm = "decided"
    /\ verdict.audit.invariants_checked
    /\ verdict.status = "REJECT"
    /\ enforce_invariants(cvvs, <<PROB_ONE>>)
            = "Invariant breach: falsified CVV has confidence > 0"

\* The call was made with range-valid records.
EnforcedRangeValid ==
    /\ enforced.op = "enforce_invariants"
    /\ \A i \in 1..Len(enforced.cvvs) : validate(enforced.cvvs[i]) = "ok"

\* By how much the probabilities of the call miss 1, in units of 1e-7.
EnforcedMiss ==
    LET x == SumProbs(enforced.softmax_probs)
    IN  IF x < PROB_ONE THEN PROB_ONE - x ELSE x - PROB_ONE

WithDefaults(adv) ==
    [k \in {"reliability_tier", "epistemic_inevitability"} |->
        IF k \in DOMAIN adv THEN adv[k]
        ELSE IF k = "reliability_tier" THEN "A" ELSE 0]

\* C26 (advisory soft defaults): for valid records and an advisory that
\* lacks any of its keys, decide returns a verdict, the one it returns when
\* a missing reliability_tier is a tier other than D and a missing
\* epistemic_inevitability is 0.0; with the empty advisory the status is
\* never REINTERPRETED and the Byzantine rule (rule 5) never fires.
C26_AdvisorySoftDefaults ==
    ecm = "decided" =>
        /\ verdict.status \in {"ACCEPT", "CONDITIONAL", "REINTERPRETED", "REJECT", "SUSPEND"}
        /\ verdict.status = decide(cvvs, WithDefaults(softmax), now).status
        /\ verdict.rationale = decide(cvvs, WithDefaults(softmax), now).rationale
        /\ softmax = <<>> =>
            /\ verdict.status # "REINTERPRETED"
            /\ verdict.rationale # "Byzantine + epistemic uncertainty"

\* C26 witness: a verdict under the empty advisory for two records that
\* rule 5 would suspend under tier D and rule 6 would reinterpret under a
\* high inevitability: confident, well covered and of high entropy.
C26_Witness ==
    /\ ecm = "decided"
    /\ softmax = <<>>
    /\ Len(cvvs) = 2
    /\ decide(cvvs, [reliability_tier |-> "D"], now).rationale
            = "Byzantine + epistemic uncertainty"
    /\ decide(cvvs, [epistemic_inevitability |-> 8000], now).status = "REINTERPRETED"
    /\ verdict.status = "CONDITIONAL"

\* ========================================================================
\* Two calls of decide
\* ========================================================================

\* A second ecm.decide() on the engine that has decided.
DecideAgain ==
    /\ ecm = "decided"
    /\ previous.op = "none"
    /\ previous' = [op |-> "decide", engine |-> "same",
                    cvvs |-> cvvs, softmax |-> softmax, verdict |-> verdict]
    /\ verdict' = decide(cvvs, softmax, now)
    /\ UNCHANGED <<cvvs, softmax, ecm, error>>
    /\ UNCHANGED outsideTwice

\* A second engine is constructed from the records of the one that has
\* decided, and an advisory of the caller's choice.
ConstructAgain ==
    /\ ecm = "decided"
    /\ previous.op = "none"
    /\ previous' = [op |-> "decide", engine |-> "other",
                    cvvs |-> cvvs, softmax |-> softmax, verdict |-> verdict]
    /\ \E adv \in Advisories :
            /\ softmax' = adv
            /\ cvvs' = cvvs
            /\ error' = IF validate_all(cvvs) = "ok" THEN "" ELSE validate_all(cvvs)
            /\ ecm' = IF validate_all(cvvs) = "ok" THEN "ready" ELSE "ValueError"
            /\ verdict' = NoVerdict
    /\ UNCHANGED outsideTwice

NextTwice ==
    \/ ConstructAudit
    \/ Decide
    \/ DecideAgain
    \/ ConstructAgain
    \/ Tick

SpecTwice == Init /\ [][NextTwice]_vars

\* Two calls of decide have been made on the same records.
DecidedTwice == ecm = "decided" /\ previous.op = "decide" /\ previous.cvvs = cvvs

\* The records are empty, hold a falsified record, meet the thresholds of
\* the contradiction dominance, or are a single record.
Vetoed(cs) ==
    \/ cs = <<>>
    \/ \E i \in 1..Len(cs) : cs[i].falsified
    \/ SumAttr(cs, "contradiction") >= 6000 * Len(cs)
    \/ \E i \in 1..Len(cs) : cs[i].contradiction >= 7000
    \/ Len(cs) = 1

MaxCalls == 3

\* Largest number of nodes in the seeds these executors are built from.
MaxCallNodes == 2

\* The kinds of node of these seeds: those of NodeTypes, a modus ponens
\* rule of certainty -4.0, and a modus tollens rule of certainty -4.0 whose
\* term also holds a contradiction indicator.
CallNodeKinds == NodeTypes \cup {"negative_rule", "negative_paradox_rule"}

CallNode(kind, id) ==
    IF kind \in NodeTypes THEN Node(kind, id)
    ELSE IF kind = "negative_rule"
        THEN [Node("inference_rule", id) EXCEPT
                !.value = [k \in {"certainty"} |-> -40000]]
    ELSE [Node("inference_rule", id) EXCEPT
                !.term = {"modus_tollens", "paradox"},
                !.value = [k \in {"certainty"} |-> -40000]]

CallEntries(kinds) ==
    [i \in 1..Len(kinds) |-> CallNode(kinds[i], "n" \o ToString(i))]

\* The params of a call: those SKGRunner.run passes, or an empty dict.
ParamsOfCalls == {Params, <<>>}

\* `self.rule_results = {}` and `self.contradiction_flags = []` bind the
\* attribute to a new object: the address after the last one of the heap.
Rebind(address, h) == Len(h) + 1

\* The heap with the object at the address set to the value.
Store(h, address, value) ==
    IF address = Len(h) + 1 THEN Append(h, value)
    ELSE [h EXCEPT ![address] = value]

\* The MiniSKGResult with its dict and its list read from the heap.
Deref(result, h) ==
    [confidence_score |-> result.confidence_score,
     rule_results |-> h[result.rule_results],
     contradiction_flags |-> h[result.contradiction_flags]]

\* executor = MiniSKGExecutor(seed_json), with the objects it creates.
NewExecutorOnHeap ==
    /\ executor = [none |-> TRUE]
    /\ \E kinds \in SeqsUpTo(CallNodeKinds, MaxCallNodes), keys \in SeedKeys :
        executor' = MiniSKGExecutorInit(Seed(CallEntries(kinds), keys))
    /\ heap' = <<executor'.rule_results, executor'.contradiction_flags>>
    /\ bound' = [rule_results |-> 1, contradiction_flags |-> 2]
    /\ calls' = <<>>
    /\ UNCHANGED traversal
    /\ UNCHANGED outsideCalls

\* result = executor.traverse(params, context): the reset binds two new
\* objects, the loop fills them, and the result returned refers to them.
TraverseOnHeap ==
    /\ executor # [none |-> TRUE]
    /\ bound # [none |-> TRUE]
    /\ Len(calls) < MaxCalls
    /\ \E context \in Contexts, params \in ParamsOfCalls :
        LET t == traverse(executor, params, context)
            results == Rebind(bound.rule_results, heap)
            heap1 == Store(heap, results, t.self.rule_results)
            flags == Rebind(bound.contradiction_flags, heap1)
            heap2 == Store(heap1, flags, t.self.contradiction_flags)
            result == [confidence_score |-> t.result.confidence_score,
                       rule_results |-> results,
                       contradiction_flags |-> flags]
        IN  /\ executor' = t.self
            /\ heap' = heap2
            /\ bound' = [rule_results |-> results, contradiction_flags |-> flags]
            /\ calls' = Append(calls, [params |-> params,
                                       context |-> context,
                                       result |-> result,
                                       returned |-> t.result])
            /\ traversal' = [op |-> "traverse",
                             params |-> params,
                             context |-> context,
                             result |-> t.result,
                             invariants |-> enforce_seed_invariants(t.result)]
    /\ UNCHANGED outsideCalls

NextCalls ==
    \/ NewExecutorOnHeap
    \/ TraverseOnHeap

SpecCalls == Init /\ [][NextCalls]_vars

\* The result of the k-th call as it is read now.
ResultOfCall(k) == Deref(calls[k].result, heap)

\* The result a newly built executor returns for the arguments of the k-th
\* call.
FirstCallResult(k) ==
    traverse(MiniSKGExecutorInit(executor.seed), calls[k].params,
             calls[k].context).result

\* C29 as stated (memoryless executor): any two calls on one executor with
\* the same context have equal results.
C29_AsStated ==
    \A j, k \in 1..Len(calls) :
        calls[j].context = calls[k].context => ResultOfCall(j) = ResultOfCall(k)

\* C29 (memoryless executor): over a sequence of traverse calls on one
\* executor, the result of each call is the one a newly built executor
\* returns for the seed, the params and the context of that call, its
\* score being the clamped sum of the baseline and the deltas of that call
\* alone; two calls with the same params keys and the same context have
\* equal results whatever calls came in between; and a result is still
\* what it was when it was returned.
C29_Memoryless ==
    /\ \A k \in 1..Len(calls) :
        /\ ResultOfCall(k) = FirstCallResult(k)
        /\ ResultOfCall(k) = calls[k].returned
    /\ \A j, k \in 1..Len(calls) :
        (/\ DOMAIN calls[j].params = DOMAIN calls[k].params
         /\ calls[j].context = calls[k].context)
            => ResultOfCall(j) = ResultOfCall(k)

\* C29 witness: three calls, the first and the third with the same
\* arguments and a call with another context in between that flags a
\* node; the score moves off the baseline without reaching a bound.
C29_Witness ==
    /\ Len(calls) = 3
    /\ calls[1].params = calls[3].params
    /\ calls[1].context = calls[3].context
    /\ calls[2].context # calls[1].context
    /\ calls[1].result.rule_results # calls[3].result.rule_results
    /\ ResultOfCall(2).contradiction_flags # <<>>
    /\ ResultOfCall(1).contradiction_flags = <<>>
    /\ DOMAIN ResultOfCall(1).rule_results # {}
    /\ ResultOfCall(1).confidence_score > executor.base_confidence
    /\ ResultOfCall(1).confidence_score < ONE
    /\ ResultOfCall(3) = ResultOfCall(1)

\* C29 counterpart of the witness for the statement as written: two calls
\* with the same context and different params keys.
SameContextOtherParams ==
    \E j, k \in 1..Len(calls) :
        /\ calls[j].context = calls[k].context
        /\ DOMAIN calls[j].params # DOMAIN calls[k].params
        /\ ResultOfCall(j) # ResultOfCall(k)

\* C30 (per-node delta floor): the confidence delta recorded for a node a
\* call has evaluated is never below -0.5.
C30_DeltaFloor ==
    \A k \in 1..Len(calls) :
        \A id \in DOMAIN ResultOfCall(k).rule_results :
            ResultOfCall(k).rule_results[id].confidence_delta >= -5000

\* A node evaluated with a contradiction hit has a delta of -0.5 or more.
DeltaFlooredOnHit ==
    \A k \in 1..Len(calls) :
        \A id \in DOMAIN ResultOfCall(k).rule_results :
            ResultOfCall(k).rule_results[id].contradiction_detected
                => ResultOfCall(k).rule_results[id].confidence_delta >= -5000

\* A rule of negative certainty evaluated without a contradiction hit.
DeltaBelowFloor ==
    \E k \in 1..Len(calls) :
        \E id \in DOMAIN ResultOfCall(k).rule_results :
            /\ ~ResultOfCall(k).rule_results[id].contradiction_detected
            /\ ResultOfCall(k).rule_results[id].confidence_delta = -6000

\* A rule of negative certainty with a hit: the floor has acted.
DeltaAtFloor ==
    \E k \in 1..Len(calls) :
        \E id \in DOMAIN ResultOfCall(k).rule_results :
            /\ ResultOfCall(k).rule_results[id].contradiction_detected
            /\ ResultOfCall(k).rule_results[id].type = "inference_rule"
            /\ ResultOfCall(k).rule_results[id].confidence_delta = -5000

\* ========================================================================
\* Malformed nodes
\* ========================================================================

\* Largest number of nodes in a seed with malformed nodes.
MaxMalformedNodes == 2

\* The fields of a node.
NodeFields == {"id", "term", "type", "definition", "value"}

\* The node without the given fields.
Without(node, missing) == [k \in DOMAIN node \ missing |-> node[k]]

\* The node with every missing field set to the default node.get names.
WithNodeDefaults(node) ==
    [id |-> Get(node, "id", ""),
     term |-> Get(node, "term", {}),
     type |-> Get(node, "type", ""),
     definition |-> Get(node, "definition", {}),
     value |-> Get(node, "value", <<>>)]

\* executor = MiniSKGExecutor(seed_json) for a seed whose nodes lack any
\* subset of their fields.
NewExecutorMalformed ==
    /\ executor = [none |-> TRUE]
    /\ \E types \in SeqsUpTo(NodeTypes, MaxMalformedNodes) :
        \E missing \in [1..Len(types) -> SUBSET NodeFields] :
            executor' = MiniSKGExecutorInit(Seed(
                [i \in 1..Len(types) |->
                    Without(Node(types[i], "n" \o ToString(i)), missing[i])],
                "entries"))
    /\ UNCHANGED traversal
    /\ UNCHANGED outsideExecutor

NextMalformed ==
    \/ NewExecutorMalformed
    \/ Traverse

SpecMalformed == Init /\ [][NextMalformed]_vars

\* The seed of the executor with the defaults filled in.
SeedWithNodeDefaults ==
    [entries |-> [i \in 1..Len(executor.seed.entries) |->
                    WithNodeDefaults(executor.seed.entries[i])]]

\* C31 (malformed nodes never fail): a traverse call on a seed whose nodes
\* lack any subset of their fields raises no error and returns the result
\* of the seed with each missing field set to its default.
C31_MalformedNeverFail ==
    traversal.op \in {"traverse", "raised"} =>
        /\ traversal.op = "traverse"
        /\ traversal.result =
                traverse(MiniSKGExecutorInit(SeedWithNodeDefaults),
                         traversal.params, traversal.context).result

\* A call raises exactly when a node lacks its id; a call that returns
\* has used the defaults for the other missing fields.
DefaultsForAllButId ==
    traversal.op \in {"traverse", "raised"} =>
        /\ traversal.op = "raised" <=>
                \E i \in 1..Len(executor.seed.entries) :
                    "id" \notin DOMAIN executor.seed.entries[i]
        /\ traversal.op = "traverse" =>
                traversal.result =
                    traverse(MiniSKGExecutorInit(SeedWithNodeDefaults),
                             traversal.params, traversal.context).result

\* A call on a node that has all fields but the id has raised.
MissingIdRaises ==
    /\ traversal.op = "raised"
    /\ Len(executor.seed.entries) = 1
    /\ DOMAIN executor.seed.entries[1] = NodeFields \ {"id"}

\* A call on a node that has the id only has returned.
IdOnlyReturns ==
    /\ traversal.op = "traverse"
    /\ Len(executor.seed.entries) = 1
    /\ DOMAIN executor.seed.entries[1] = {"id"}
    /\ traversal.result.rule_results["n1"].confidence_delta = 500

\* ========================================================================
\* The propagator with several keys
\* ========================================================================

\* Largest number of artifacts in the registry.
MaxKeyShadows == 3

\* The (target, location) pairs of the calls: two agents at one node, and
\* a pair whose target and location are split at another underscore.
KeyPairs ==
    {<<"kant", "SPACE_247">>, <<"hume", "SPACE_247">>, <<"kant_SPACE", "247">>}

\* The result emitted: the one with two contradiction flags.
KeyResults == {r \in MiniSKGResults : Len(r.contradiction_flags) = 2}

\* The base metrics of the applies: the defaults of BeamMetrics.
KeyBase == [confidence |-> 5000, entropy |-> 5000, contradiction |-> 0]

EmitAt ==
    /\ TotalShadows(active_shadows, DOMAIN active_shadows) < MaxKeyShadows
    /\ \E origin \in Agents, pair \in KeyPairs, result \in KeyResults :
            emit_shadow(origin, pair[2], pair[1], result, ShadowTriggers)
    /\ UNCHANGED outsideShadow

ApplyAt ==
    \E pair \in KeyPairs : apply_shadows_to_metrics(pair[1], pair[2], KeyBase)

\* A caller asks the registry for its statistics.
Stats == get_shadow_stats

\* Instants of the calls: the start, and the instant at which an artifact
\* emitted at the start has expired.
KeyClock == {0, TTL_MS + 1}

\* Wall-clock time passes between two calls.
TickAt ==
    /\ \E t \in KeyClock : t > now /\ now' = t
    /\ ret' = [op |-> "none"]
    /\ UNCHANGED <<active_shadows, node_adjustment_counts, node_cumulative_deltas>>
    /\ UNCHANGED outsideShadow

NextKeys ==
    \/ EmitAt
    \/ ApplyAt
    \/ Resonance
    \/ Stats
    \/ TickAt

SpecKeys == Init /\ [][NextKeys]_vars

\* The live artifacts at a key of the registry.
LiveAt(k) == IF k \in DOMAIN active_shadows THEN LiveShadows(active_shadows[k], now) ELSE <<>>

\* The origins of the artifacts of a list.
OriginsOf(shadows) == {shadows[i].skg_origin : i \in 1..Len(shadows)}

\* The events of the resonance query that has just returned.
EventsAt(k) == {e \in ret.result.resonance_events : e.node = k}

\* C32 (resonance): the resonance query returns one event for each key
\* with at least 2 live artifacts and none for any other key; the event
\* lists the origins of the key's live artifacts, each once, and at most
\* two confidence deltas; the query leaves the registry and the counters as
\* they are and with them the result of every later apply.
C32_Resonance ==
    /\ [](ret.op = "get_resonance_markers" =>
            /\ \A e \in ret.result.resonance_events :
                /\ e.node \in DOMAIN active_shadows
                /\ Len(LiveAt(e.node)) >= 2
                /\ e.skgs_involved = OriginsOf(LiveAt(e.node))
                /\ Len(e.confidence_shifts) <= 2
            /\ \A k \in DOMAIN active_shadows :
                Len(LiveAt(k)) >= 2 => Cardinality(EventsAt(k)) = 1
            /\ ret.result.total_resonance_events =
                Cardinality({k \in DOMAIN active_shadows : Len(LiveAt(k)) >= 2}))
    /\ [][ret'.op = "get_resonance_markers" =>
            /\ active_shadows' = active_shadows
            /\ node_adjustment_counts' = node_adjustment_counts
            /\ node_cumulative_deltas' = node_cumulative_deltas
            /\ \A pair \in KeyPairs :
                ApplyResult(active_shadows', node_adjustment_counts',
                            pair[1], pair[2], KeyBase, now')
                    = ApplyResult(active_shadows, node_adjustment_counts,
                                  pair[1], pair[2], KeyBase, now)]_vars

\* C32 witness: the query has returned one event for a registry of two
\* keys: one with two live artifacts of two agents, which an apply would
\* adjust for, and one with a single live artifact.
C32_Witness ==
    /\ ret.op = "get_resonance_markers"
    /\ Cardinality(DOMAIN active_shadows) = 2
    /\ Cardinality(ret.result.resonance_events) = 1
    /\ \E k1, k2 \in DOMAIN active_shadows :
        /\ k1 # k2
        /\ Len(LiveAt(k1)) = 2
        /\ Cardinality(OriginsOf(LiveAt(k1))) = 2
        /\ Len(LiveAt(k2)) = 1
        /\ EventsAt(k2) = {}
    /\ \E pair \in KeyPairs :
        ApplyResult(active_shadows, node_adjustment_counts,
                    pair[1], pair[2], KeyBase, now) # KeyBase

\* C33 (resonance needs different agents): an event of the resonance
\* query is for a key with live artifacts of at least two origins.
C33_DifferentAgents ==
    ret.op = "get_resonance_markers" =>
        \A e \in ret.result.resonance_events :
            Cardinality(OriginsOf(LiveAt(e.node))) >= 2

\* An event has been reported for a key whose live artifacts all come from
\* one agent.
EventForOneAgent ==
    /\ ret.op = "get_resonance_markers"
    /\ \E e \in ret.result.resonance_events : Cardinality(e.skgs_involved) = 1

\* The query has returned no event for a key that holds two artifacts of
\* which one has expired.
NoEventForExpired ==
    /\ ret.op = "get_resonance_markers"
    /\ \E k \in DOMAIN active_shadows :
        /\ Len(active_shadows[k]) = 2
        /\ Len(LiveAt(k)) = 1
        /\ EventsAt(k) = {}

\* ========================================================================
\* Many emitters at one key
\* ========================================================================

\* Largest number of artifacts in the registry.
MaxBoundShadows == 4

\* The emitting agents: the target itself and two others.
BoundAgents == {"hume", "locke", "kant"}

\* The results emitted: two contradiction flags (a contribution of -0.15)
\* and a high confidence score (a contribution of +0.10).
BoundResults == {r \in MiniSKGResults : r.confidence_score \in {0, 8000}}

EmitMany ==
    /\ TotalShadows(active_shadows, DOMAIN active_shadows) < MaxBoundShadows
    /\ \E origin \in BoundAgents, result \in BoundResults :
            emit_shadow(origin, "SPACE_247", "kant", result, ShadowTriggers)
    /\ UNCHANGED outsideShadow

ApplyMany == apply_shadows_to_metrics("kant", "SPACE_247", KeyBase)

NextBound ==
    \/ EmitMany
    \/ ApplyMany
    \/ TickAt

SpecBound == Init /\ [][NextBound]_vars

\* C34 (bounded cross-contamination): the cumulative delta of every key
\* stays within [-0.75, +0.75] whatever the number of emitters and
\* artifacts: an apply that changes it finds the adjustment count below 3,
\* raises the count by at least 1 and moves the cumulative delta by at
\* most 0.25.
C34_BoundedContamination ==
    /\ [](\A k \in DOMAIN node_cumulative_deltas :
            -7500 <= node_cumulative_deltas[k] /\ node_cumulative_deltas[k] <= 7500)
    /\ [][\A k \in DOMAIN node_cumulative_deltas' :
            Get(node_cumulative_deltas, k, 0) # node_cumulative_deltas'[k] =>
                /\ ret'.op = "apply_shadows_to_metrics"
                /\ Get(node_adjustment_counts, k, 0) < 3
                /\ node_adjustment_counts'[k] >= Get(node_adjustment_counts, k, 0) + 1
                /\ node_cumulative_deltas'[k] - Get(node_cumulative_deltas, k, 0) <= 2500
                /\ Get(node_cumulative_deltas, k, 0) - node_cumulative_deltas'[k] <= 2500
       ]_vars

\* C34 witness: three applies have adjusted at the key, the last one for
\* four artifacts of three agents, and the cumulative delta stands at
\* -0.55, beyond the cap of one apply.
C34_Witness ==
    /\ ret.op = "apply_shadows_to_metrics"
    /\ "kant_SPACE_247" \in DOMAIN node_cumulative_deltas
    /\ node_cumulative_deltas["kant_SPACE_247"] = -5500
    /\ node_adjustment_counts["kant_SPACE_247"] >= 3
    /\ Len(active_shadows["kant_SPACE_247"]) = 4
    /\ Cardinality(OriginsOf(active_shadows["kant_SPACE_247"])) = 3

\* The (target, location) pair of the emit or apply that has just run.
PairOfCall(r) ==
    IF r.op = "emit_shadow" THEN <<r.evaluation_target, r.node_location>>
    ELSE <<r.target_skg, r.node_location>>

\* What the propagator holds for a pair: its artifacts, its two counters
\* and what an apply at the pair returns.
HeldFor(pair, shadows, counts, deltas, t) ==
    [artifacts |-> Get(shadows, TargetKey(pair[1], pair[2]), <<>>),
     count |-> Get(counts, TargetKey(pair[1], pair[2]), 0),
     cumulative |-> Get(deltas, TargetKey(pair[1], pair[2]), 0),
     applied |-> ApplyResult(shadows, counts, pair[1], pair[2], KeyBase, t)]

\* An emit or apply step leaves what is held for the pair q as it was.
LeavesAlone(q) ==
    HeldFor(q, active_shadows', node_adjustment_counts', node_cumulative_deltas', now')
        = HeldFor(q, active_shadows, node_adjustment_counts, node_cumulative_deltas, now)

\* C35 (key isolation): an apply at (target, location) considers only
\* artifacts emitted with exactly that target and that location, and an
\* emit or apply at one pair leaves the artifacts, the adjustment count,
\* the cumulative delta and the apply result of every other pair as they
\* were.
C35_KeyIsolation ==
    [][ret'.op \in {"emit_shadow", "apply_shadows_to_metrics"} =>
        /\ ret'.op = "apply_shadows_to_metrics" =>
            LET live == LiveAt(TargetKey(ret'.target_skg, ret'.node_location))
            IN  \A i \in 1..Len(live) :
                    /\ live[i].evaluation_target = ret'.target_skg
                    /\ live[i].node_location = ret'.node_location
        /\ \A q \in KeyPairs : q # PairOfCall(ret') => LeavesAlone(q)]_vars

\* An emit or apply at one pair leaves alone every pair whose target and
\* location concatenate to another string.
OtherKeysLeftAlone ==
    [][ret'.op \in {"emit_shadow", "apply_shadows_to_metrics"} =>
        \A q \in KeyPairs :
            TargetKey(q[1], q[2]) # TargetKey(PairOfCall(ret')[1], PairOfCall(ret')[2])
                => LeavesAlone(q)]_vars

\* An apply for kant at SPACE_247 has adjusted for an artifact emitted for
\* the target kant_SPACE at the location 247.
AppliedForeignArtifact ==
    /\ ret.op = "apply_shadows_to_metrics"
    /\ ret.target_skg = "kant" /\ ret.node_location = "SPACE_247"
    /\ ret.result # ret.base_metrics
    /\ Len(active_shadows["kant_SPACE_247"]) = 1
    /\ active_shadows["kant_SPACE_247"][1].evaluation_target = "kant_SPACE"

\* ========================================================================
\* The lifetime of an artifact and of a rate limit
\* ========================================================================

NextLifetime ==
    \/ Emit
    \/ Apply
    \/ Resonance
    \/ Stats
    \/ Tick

SpecLifetime == Init /\ [][NextLifetime]_vars

\* The step is an apply at key k.
ApplyStepAt(k) ==
    /\ ret'.op = "apply_shadows_to_metrics"
    /\ TargetKey(ret'.target_skg, ret'.node_location) = k

\* Stored artifacts are never modified, and leave the registry only in an
\* apply at their key, which removes exactly those older than TTL_MS.
StoredUntilExpired ==
    \A k \in DOMAIN active_shadows :
        /\ k \in DOMAIN active_shadows'
        /\ IF ApplyStepAt(k)
           THEN active_shadows'[k] = FreshAt(active_shadows[k], now)
           ELSE /\ Len(active_shadows'[k]) >= Len(active_shadows[k])
                /\ SubSeq(active_shadows'[k], 1, Len(active_shadows[k]))
                        = active_shadows[k]

\* An apply below the rate limit shifts the base metrics by the clamped
\* sum of the contributions of the given artifacts.
AppliesAll(shadows) ==
    ret'.result = AdjustedMetrics(ret'.base_metrics,
                                  Clamp(-2500, 2500, SumAdjustments(shadows)))

\* C36 as stated (artifact lifetime): artifacts are stored unmodified
\* until the eviction of an apply at their key, and every live artifact
\* contributes to every apply at its key that is not rate-limited.
C36_AsStated ==
    [][/\ StoredUntilExpired
       /\ \A k \in DOMAIN active_shadows :
            (ApplyStepAt(k) /\ Get(node_adjustment_counts, k, 0) < 3
                /\ FreshAt(active_shadows[k], now) # <<>>)
                => AppliesAll(FreshAt(active_shadows[k], now))]_vars

\* C36 (artifact lifetime): once stored, an artifact is never modified and
\* is removed only by the eviction of an apply at its key once it is older
\* than 5000 ms; no other operation and no other part of apply removes it;
\* and every live artifact whose origin is not the target contributes to
\* every apply at its key that is not rate-limited.
C36_ArtifactLifetime ==
    [][/\ StoredUntilExpired
       /\ \A k \in DOMAIN active_shadows :
            (ApplyStepAt(k) /\ Get(node_adjustment_counts, k, 0) < 3
                /\ FreshAt(active_shadows[k], now) # <<>>)
                => AppliesAll(NotFrom(FreshAt(active_shadows[k], now),
                                      ret'.target_skg))]_vars

\* C36 witness: an apply at the rate limit has evicted an artifact older
\* than 5000 ms and kept, unapplied, one emitted later by another agent.
C36_Witness ==
    /\ ret.op = "apply_shadows_to_metrics"
    /\ now = TTL_MS + 1
    /\ LET k == TargetKey(ret.target_skg, ret.node_location)
       IN  /\ k \in DOMAIN active_shadows
           /\ Len(active_shadows[k]) = 1
           /\ active_shadows[k][1].timestamp_ms > 0
           /\ active_shadows[k][1].skg_origin # ret.target_skg
           /\ Get(node_adjustment_counts, k, 0) >= 3
           /\ ret.result = ret.base_metrics

\* An apply below the rate limit has returned the base metrics although a
\* live artifact, emitted by the target itself, is at the key.
SelfArtifactNotApplied ==
    /\ ret.op = "apply_shadows_to_metrics"
    /\ LET k == TargetKey(ret.target_skg, ret.node_location)
       IN  /\ k \in DOMAIN active_shadows
           /\ Len(FreshAt(active_shadows[k], now)) = 1
           /\ active_shadows[k][1].skg_origin = ret.target_skg
           /\ Get(node_adjustment_counts, k, 0) = 0
           /\ ret.result = ret.base_metrics

\* ========================================================================
\* The second contradiction check of decide
\* ========================================================================

\* C37 (dead duplicate): decide never returns with the rationale "High
\* internal contradiction" of the later check (mean contradiction > 0.60):
\* every set without falsified record whose mean contradiction is >= 0.60
\* has returned at the contradiction-dominance rule.
C37_DeadDuplicate ==
    ecm = "decided" =>
        /\ verdict.rationale # "High internal contradiction"
        /\ (/\ cvvs # <<>>
            /\ ~any_falsified(cvvs)
            /\ SumAttr(cvvs, "contradiction") >= 6000 * Len(cvvs))
           => verdict.rationale = "high_epistemic_contradiction"

\* C37 witness: two records without falsification whose mean
\* contradiction is above 0.60 have been suspended by the dominance rule.
C37_Witness ==
    /\ ecm = "decided"
    /\ Len(cvvs) = 2
    /\ ~any_falsified(cvvs)
    /\ SumAttr(cvvs, "contradiction") > 6000 * 2
    /\ verdict.status = "SUSPEND"
    /\ verdict.rationale = "high_epistemic_contradiction"

\* C38 (the rate limit is permanent): no operation lowers or removes the
\* adjustment count of a key, and an apply at a key whose count has
\* reached 3 returns the base metrics and leaves both counters alone; so
\* once a key is at the limit it stays there, also after its artifacts
\* have expired and others have been emitted.
C38_PermanentRateLimit ==
    /\ [][\A k \in DOMAIN node_adjustment_counts :
            /\ k \in DOMAIN node_adjustment_counts'
            /\ node_adjustment_counts'[k] >= node_adjustment_counts[k]]_vars
    /\ [][\A k \in DOMAIN node_adjustment_counts :
            (ApplyStepAt(k) /\ node_adjustment_counts[k] >= 3) =>
                /\ ret'.result = ret'.base_metrics
                /\ node_adjustment_counts' = node_adjustment_counts
                /\ node_cumulative_deltas' = node_cumulative_deltas]_vars
    /\ \A k \in {TargetKey(t, l) : t \in Targets, l \in Locations} :
        []((k \in DOMAIN node_adjustment_counts /\ node_adjustment_counts[k] >= 3)
            => [](k \in DOMAIN node_adjustment_counts /\ node_adjustment_counts[k] >= 3))

\* C38 witness: the key reached the limit with artifacts emitted at the
\* start; they have expired and been evicted, two artifacts of another
\* agent have been emitted since, and the apply that ran returned the base
\* metrics.
C38_Witness ==
    /\ ret.op = "apply_shadows_to_metrics"
    /\ now = TTL_MS + 1
    /\ LET k == TargetKey(ret.target_skg, ret.node_location)
       IN  /\ k \in DOMAIN active_shadows
           /\ Len(active_shadows[k]) = 2
           /\ \A i \in 1..2 :
                /\ active_shadows[k][i].timestamp_ms = TTL_MS + 1
                /\ active_shadows[k][i].skg_origin # ret.target_skg
           /\ k \in DOMAIN node_adjustment_counts
           /\ node_adjustment_counts[k] >= 3
           /\ ret.result = ret.base_metrics

\* ========================================================================
\* The order of the records
\* ========================================================================

\* Largest number of records in these sets.
MaxOrderCVVs == 3

\* The records: two of confidence 0.99 and 0.12 (with two of the first the
\* mean confidence is exactly 0.70), a strong one, a contradictory one and
\* a falsified one.
OrderCVVs ==
    {[confidence |-> 9900, contradiction |-> 1000, entropy |-> 3000,
      coverage |-> 5000, falsified |-> FALSE, skg_id |-> "kant"],
     [confidence |-> 1200, contradiction |-> 1000, entropy |-> 3000,
      coverage |-> 5000, falsified |-> FALSE, skg_id |-> "locke"],
     [confidence |-> 8500, contradiction |-> 1000, entropy |-> 5000,
      coverage |-> 9000, falsified |-> FALSE, skg_id |-> "hume"],
     [confidence |-> 7500, contradiction |-> 7000, entropy |-> 5000,
      coverage |-> 9000, falsified |-> FALSE, skg_id |-> "locke"],
     [confidence |-> 4500, contradiction |-> 1000, entropy |-> 5000,
      coverage |-> 9000, falsified |-> TRUE, skg_id |-> "spinoza"]}

\* The orders a list of records can be given in.
OrdersOf(cs) ==
    {[i \in 1..Len(cs) |-> cs[f[i]]] :
        f \in {g \in [1..Len(cs) -> 1..Len(cs)] :
                \A i, j \in 1..Len(cs) : g[i] = g[j] => i = j}}

ConstructOrder ==
    /\ ecm = "none"
    /\ \E cs \in SeqsUpTo(OrderCVVs, MaxOrderCVVs), adv \in Advisories :
            ECMRuntimeInit(cs, adv)

\* A second engine is constructed from the records of the one that has
\* decided, in another order, and the same advisory.
ConstructPermuted ==
    /\ ecm = "decided"
    /\ previous.op = "none"
    /\ previous' = [op |-> "decide", engine |-> "permuted",
                    cvvs |-> cvvs, softmax |-> softmax, verdict |-> verdict]
    /\ \E cs \in OrdersOf(cvvs) \ {cvvs} :
            /\ cvvs' = cs
            /\ error' = IF validate_all(cs) = "ok" THEN "" ELSE validate_all(cs)
            /\ ecm' = IF validate_all(cs) = "ok" THEN "ready" ELSE "ValueError"
    /\ verdict' = NoVerdict
    /\ UNCHANGED softmax
    /\ UNCHANGED outsideTwice

NextOrder ==
    \/ ConstructOrder
    \/ Decide
    \/ ConstructPermuted

SpecOrder == Init /\ [][NextOrder]_vars

\* Two engines have decided on the same records in two orders.
DecidedPermuted ==
    /\ ecm = "decided"
    /\ previous.op = "decide"
    /\ previous.engine = "permuted"

\* C39 (order independence): the status and the rationale of decide are
\* the same for every order of the records.
C39_OrderIndependence ==
    DecidedPermuted =>
        /\ verdict.status = previous.verdict.status
        /\ verdict.rationale = previous.verdict.rationale

\* The mean of an attribute is exactly one of the thresholds decide
\* compares it with.
MeanOnThreshold(cs) ==
    \/ SumAttr(cs, "confidence") \in {7000 * Len(cs), 5000 * Len(cs)}
    \/ SumAttr(cs, "coverage") \in {7500 * Len(cs), 6000 * Len(cs), 4000 * Len(cs)}
    \/ SumAttr(cs, "contradiction") \in {6000 * Len(cs), 1500 * Len(cs)}
    \/ SumAttr(cs, "entropy") = 7000 * Len(cs)

\* Off the thresholds the order does not matter, and the signatures
\* follow the order of the records.
OrderIndependentOffThresholds ==
    DecidedPermuted =>
        /\ ~MeanOnThreshold(cvvs) =>
            /\ verdict.status = previous.verdict.status
            /\ verdict.rationale = previous.verdict.rationale
        /\ verdict.cvv_signatures = [i \in 1..Len(cvvs) |-> signature(cvvs[i])]

\* The records of confidence 0.99, 0.99, 0.12 were accepted, and in
\* another order they are up for escalation.
AcceptedInOneOrder ==
    /\ DecidedPermuted
    /\ AttrValues(previous.cvvs, "confidence") = <<9900, 9900, 1200>>
    /\ previous.verdict.status = "ACCEPT"
    /\ verdict.status = "SUSPEND"
    /\ verdict.rationale = "Ambiguous; human escalation required"

====
